---- MODULE Spec2Model ----
(***************************************************************************)
(* Model of the data pipeline of microbial-survival-modeling:              *)
(*   groupDataByTemperature and fitMicrobialModel, in the two variants the *)
(*   repository holds (src/src/utils/microbialUtils.ts, the "metrics"      *)
(*   variant, and src/unnamed/part_008, the "per temperature" variant).    *)
(* Further parts: parseCSVFile of both variants, getDataSummary of both    *)
(* variants (src/src/utils/dataAnalysis.ts, src/unnamed/part_007), the     *)
(* handlers of the MicrobialModeler component, the message relay           *)
(* POST /api/messages of both server files, the AIChat panel, and the      *)
(* simulated upload of both upload components.  Each part has its own      *)
(* next-state relation and specification over the one set of variables.    *)
(* JavaScript numbers are modelled as exact rationals plus NaN and the two *)
(* infinities; Math.sqrt and Math.exp are computed to two decimal places.  *)
(***************************************************************************)
EXTENDS Integers, Sequences, FiniteSets, TLC

VARIABLES data, op, model, groups, perGroup, result

\* the CSV upload: the text of the file, the parser that read it, its outcome
VARIABLES text, parser, parsed

fitVars == <<data, op, model, groups, perGroup, result>>

\* the data summary the modeler shows: the value of getDataSummary
VARIABLES summary

\* the state of the MicrobialModeler component, and the call of
\* fitMicrobialModel its handleModelFit made last (the rows and the model kind
\* the call was given, whether it is still running)
VARIABLES rawData, selectedModel, isFitting, fitResult, errorMessage, fitCall

\* the number of calls of fitMicrobialModel that have not settled yet
VARIABLES inFlight

\* the message relay: which of the two server files runs, its userSessions
\* object, the history arrays it has created, the requests it has received
VARIABLES server, userSessions, arrays, requests

\* the AIChat component: its message list, the text of its input field, its
\* loading flag, the number of fetch calls that have not settled yet, and the
\* step of handleSend that ran last
VARIABLES messages, input, loading, chatInFlight, chatOp

\* the upload component the modeler renders: which of the two component
\* files it is, the File objects created so far, the component's state, the
\* file its running interval captured, the fetches of the sample file that
\* have not settled, and the step that ran last
VARIABLES uploader, files, selectedFile, progress, isUploading, statusMessage,
          canLoadSample, interval, sampleFetches, uploadOp

csvVars == <<text, parser, parsed>>

uploadVars == <<uploader, files, selectedFile, progress, isUploading, statusMessage,
                canLoadSample, interval, sampleFetches, uploadOp>>

chatVars == <<messages, input, loading, chatInFlight, chatOp>>

apiVars == <<server, userSessions, arrays, requests>>

uiVars == <<rawData, selectedModel, isFitting, fitResult, errorMessage, fitCall, inFlight>>

\* the variables the fitting pipeline leaves alone
outsideFit == <<csvVars, summary, uiVars, apiVars, chatVars, uploadVars>>

\* the variables the CSV upload leaves alone
outsideCSV == <<data, model, perGroup, result, summary, uiVars, apiVars, chatVars, uploadVars>>

\* the variables the modeler's handlers leave alone
outsideUI == <<data, model, groups, perGroup, result, csvVars, summary, apiVars, chatVars, uploadVars>>

\* the variables the relay leaves alone
outsideAPI == <<fitVars, csvVars, summary, uiVars, chatVars, uploadVars>>

vars == <<fitVars, csvVars, summary, uiVars, apiVars, chatVars, uploadVars>>

(***************************************************************************)
(* Bounds of the model.                                                    *)
(***************************************************************************)
MaxRows == 4

\* the simulated model kinds are run on inputs of at most this many rows
MaxSimulatedRows == 3

(***************************************************************************)
(* JavaScript values.  A value is a record [k, n, d]:                      *)
(*   k = "fin"   the finite number n/d (d > 0, lowest terms)               *)
(*   k = "nan", "pinf", "ninf"   NaN, +Infinity, -Infinity                 *)
(*   k = "undef" undefined (an absent field)                               *)
(*   k = "estr"  the empty string                                          *)
(***************************************************************************)
Abs(x) == IF x < 0 THEN -x ELSE x

RECURSIVE GCD(_, _)
GCD(a, b) == IF b = 0 THEN a ELSE GCD(b, a % b)

Fin(n, d) ==
    LET s == IF d < 0 THEN -1 ELSE 1
        g == GCD(Abs(n), Abs(d))
    IN  [k |-> "fin", n |-> (s * n) \div g, d |-> (s * d) \div g]

Int2Num(i) == [k |-> "fin", n |-> i, d |-> 1]
Zero == Int2Num(0)
One == Int2Num(1)
NaN == [k |-> "nan", n |-> 0, d |-> 1]
PInf == [k |-> "pinf", n |-> 0, d |-> 1]
NInf == [k |-> "ninf", n |-> 0, d |-> 1]
Undefined == [k |-> "undef", n |-> 0, d |-> 1]
EmptyString == [k |-> "estr", n |-> 0, d |-> 1]

\* typeof v === "number"
TypeofNumber(v) == v.k \in {"fin", "nan", "pinf", "ninf"}

\* Number.isFinite(v): no coercion, false for every non-number
NumberIsFinite(v) == v.k = "fin"

\* Number(v): undefined -> NaN, "" -> 0
ToNumber(v) ==
    CASE v.k = "undef" -> NaN
      [] v.k = "estr" -> Zero
      [] OTHER -> v

\* v || 0 : the falsy values are 0, NaN, undefined and ""
OrZero(v) ==
    IF v.k \in {"nan", "undef", "estr"} \/ (v.k = "fin" /\ v.n = 0) THEN Zero ELSE v

Sign(v) ==
    CASE v.k = "pinf" -> 1
      [] v.k = "ninf" -> -1
      [] v.k = "fin" -> (IF v.n > 0 THEN 1 ELSE IF v.n < 0 THEN -1 ELSE 0)
      [] OTHER -> 0

Neg(a) ==
    CASE a.k = "fin" -> [a EXCEPT !.n = -a.n]
      [] a.k = "pinf" -> NInf
      [] a.k = "ninf" -> PInf
      [] OTHER -> NaN

Add(a, b) ==
    CASE a.k = "nan" \/ b.k = "nan" -> NaN
      [] a.k = "fin" /\ b.k = "fin" ->
            IF a.d = 1 /\ b.d = 1
            THEN Int2Num(a.n + b.n)
            ELSE LET g == GCD(a.d, b.d)
                     l == (a.d \div g) * b.d
                 IN  Fin(a.n * (l \div a.d) + b.n * (l \div b.d), l)
      [] a.k = "fin" -> b
      [] b.k = "fin" -> a
      [] OTHER -> IF a.k = b.k THEN a ELSE NaN

Sub(a, b) == Add(a, Neg(b))

Mul(a, b) ==
    CASE a.k = "nan" \/ b.k = "nan" -> NaN
      [] a.k = "fin" /\ b.k = "fin" ->
            IF a.d = 1 /\ b.d = 1
            THEN Int2Num(a.n * b.n)
            ELSE LET g1 == GCD(Abs(a.n), b.d)
                     g2 == GCD(Abs(b.n), a.d)
                 IN  Fin((a.n \div g1) * (b.n \div g2), (a.d \div g2) * (b.d \div g1))
      [] OTHER ->
            LET s == Sign(a) * Sign(b)
            IN  IF s = 0 THEN NaN ELSE IF s > 0 THEN PInf ELSE NInf

Div(a, b) ==
    CASE a.k = "nan" \/ b.k = "nan" -> NaN
      [] a.k = "fin" /\ b.k = "fin" ->
            IF b.n = 0
            THEN (IF a.n = 0 THEN NaN ELSE IF a.n > 0 THEN PInf ELSE NInf)
            ELSE Mul(a, Fin(b.d, b.n))
      [] a.k = "fin" -> Zero
      [] b.k = "fin" ->
            IF (Sign(a) > 0) = (b.n >= 0) THEN PInf ELSE NInf
      [] OTHER -> NaN

\* a > b and a < b of JavaScript: false as soon as one side is NaN
Gt(a, b) == a.k # "nan" /\ b.k # "nan" /\ Sign(Sub(a, b)) > 0
Lt(a, b) == Gt(b, a)

AbsNum(a) == IF Sign(a) < 0 THEN Neg(a) ELSE a

Square(a) == Mul(a, a)

\* the largest r with r * r <= x, by bisection on lo..hi
RECURSIVE Isqrt(_, _, _)
Isqrt(x, lo, hi) ==
    IF lo >= hi THEN lo
    ELSE LET mid == (lo + hi + 1) \div 2
         IN  IF mid * mid <= x THEN Isqrt(x, mid, hi) ELSE Isqrt(x, lo, mid - 1)

\* the integer square root of x; the search stays below the square root of
\* the largest machine integer
Root(x) == Isqrt(x, 0, IF x < 46340 THEN x ELSE 46340)

\* Math.sqrt, exact on squares of rationals, otherwise cut to two decimals
Sqrt(a) ==
    CASE a.k = "pinf" -> PInf
      [] a.k = "fin" /\ a.n >= 0 ->
            LET rn == Root(a.n)
                rd == Root(a.d)
            IN  IF rn * rn = a.n /\ rd * rd = a.d
                THEN Fin(rn, rd)
                ELSE Fin(Root((a.n * 10000) \div a.d), 100)
      [] OTHER -> NaN

\* reduce((sum, v) => sum + v, 0) over the first k elements
RECURSIVE SumTo(_, _)
SumTo(s, k) == IF k = 0 THEN Zero ELSE Add(SumTo(s, k - 1), s[k])

SumNum(s) == SumTo(s, Len(s))

\* Math.max(...s) and Math.min(...s): NaN as soon as one element is NaN
RECURSIVE MaxTo(_, _)
MaxTo(s, k) ==
    IF k = 0 THEN NInf
    ELSE LET m == MaxTo(s, k - 1)
         IN  IF s[k].k = "nan" \/ m.k = "nan" THEN NaN
             ELSE IF Gt(s[k], m) THEN s[k] ELSE m

MaxNum(s) == MaxTo(s, Len(s))

RECURSIVE MinTo(_, _)
MinTo(s, k) ==
    IF k = 0 THEN PInf
    ELSE LET m == MinTo(s, k - 1)
         IN  IF s[k].k = "nan" \/ m.k = "nan" THEN NaN
             ELSE IF Lt(s[k], m) THEN s[k] ELSE m

MinNum(s) == MinTo(s, Len(s))

(***************************************************************************)
(* Rows.  ref stands for the row object's identity and for every column    *)
(* other than the three semantic fields.                                   *)
(***************************************************************************)
Row(ref, time, temperature, microbe) ==
    [ref |-> ref, time |-> time, temperature |-> temperature, microbe |-> microbe]

(***************************************************************************)
(* groupDataByTemperature.  The groups object is the sequence of its       *)
(* properties in creation order; a property key is the decimal text of the *)
(* number: a sign and the digits of |t|.                                   *)
(***************************************************************************)
ToPropertyKey(t) == [neg |-> t.n < 0, n |-> Abs(t.n), d |-> t.d]

KeyToNumber(key) == Fin(IF key.neg THEN -key.n ELSE key.n, key.d)

\* canonical array-index keys are enumerated first, in ascending order
IsArrayIndex(key) == ~key.neg /\ key.d = 1

HasKey(obj, key) == \E i \in 1..Len(obj) : obj[i].key = key

GetProp(obj, key) ==
    LET i == CHOOSE j \in 1..Len(obj) : obj[j].key = key IN obj[i].data

\* mutant: unshift instead of push, the group's rows come out reversed
PushRow_Unshift(obj, key, row) ==
    IF HasKey(obj, key)
    THEN [i \in 1..Len(obj) |->
            IF obj[i].key = key THEN [obj[i] EXCEPT !.data = <<row>> \o @] ELSE obj[i]]
    ELSE Append(obj, [key |-> key, data |-> <<row>>])

PushRow(obj, key, row) ==
    IF HasKey(obj, key)
    THEN [i \in 1..Len(obj) |->
            IF obj[i].key = key THEN [obj[i] EXCEPT !.data = Append(@, row)] ELSE obj[i]]
    ELSE Append(obj, [key |-> key, data |-> <<row>>])

RECURSIVE ForEachRow(_, _, _)
ForEachRow(rows, i, obj) ==
    IF i > Len(rows) THEN obj
    ELSE LET t == ToNumber(rows[i].temperature)
         IN  ForEachRow(rows, i + 1,
                 IF NumberIsFinite(t) THEN PushRow(obj, ToPropertyKey(t), rows[i]) ELSE obj)

RECURSIVE AscendingIndexKeys(_)
AscendingIndexKeys(keys) ==
    IF keys = {} THEN <<>>
    ELSE LET lo == CHOOSE x \in keys : \A y \in keys : x.n <= y.n
         IN  <<lo>> \o AscendingIndexKeys(keys \ {lo})

ObjectKeys(obj) ==
    LET index == {obj[i].key : i \in {j \in 1..Len(obj) : IsArrayIndex(obj[j].key)}}
        other == SelectSeq(obj, LAMBDA p : ~IsArrayIndex(p.key))
    IN  AscendingIndexKeys(index) \o [i \in 1..Len(other) |-> other[i].key]

\* Array.prototype.sort with (a, b) => a.temperature - b.temperature: stable
RECURSIVE SortByTemperature(_)
SortByTemperature(s) ==
    IF Len(s) <= 1 THEN s
    ELSE LET front == SortByTemperature(SubSeq(s, 1, Len(s) - 1))
             x == s[Len(s)]
             keep == {i \in 1..Len(front) :
                        ~(Sign(Sub(front[i].temperature, x.temperature)) > 0)}
             cut == IF keep = {} THEN 0 ELSE CHOOSE i \in keep : \A j \in keep : j <= i
         IN  SubSeq(front, 1, cut) \o <<x>> \o SubSeq(front, cut + 1, Len(front))

\* mutant: the final sort by temperature is left out
groupDataByTemperature_Unsorted(rows) ==
    IF Len(rows) = 0 THEN <<>>
    ELSE LET obj == ForEachRow(rows, 1, <<>>)
             keys == ObjectKeys(obj)
         IN  [i \in 1..Len(keys) |->
                 [temperature |-> KeyToNumber(keys[i]),
                  data |-> GetProp(obj, ToPropertyKey(KeyToNumber(keys[i])))]]

groupDataByTemperature(rows) ==
    IF Len(rows) = 0 THEN <<>>
    ELSE LET obj == ForEachRow(rows, 1, <<>>)
             keys == ObjectKeys(obj)
         IN  SortByTemperature(
                 [i \in 1..Len(keys) |->
                     [temperature |-> KeyToNumber(keys[i]),
                      data |-> GetProp(obj, ToPropertyKey(KeyToNumber(keys[i])))]])


(***************************************************************************)
(* fitMicrobialModel, src/src/utils/microbialUtils.ts (aggregate metrics   *)
(* rmse, mae, r2; linear fit and simulated model kinds).                   *)
(***************************************************************************)
MapSeq(s, F(_)) == [i \in 1..Len(s) |-> F(s[i])]

\* the filter of the fit loop: finite numeric time and finite numeric microbe
IsValidRow(r) ==
    /\ TypeofNumber(r.time) /\ NumberIsFinite(r.time)
    /\ TypeofNumber(r.microbe) /\ NumberIsFinite(r.microbe)

ValidRows(rows) == SelectSeq(rows, IsValidRow)

WithFitted(r, v) ==
    [ref |-> r.ref, time |-> r.time, temperature |-> r.temperature,
     microbe |-> r.microbe, microbe_fitted |-> v]

\* mutant: the intercept is not divided by n
LinearFit_InterceptNotAveraged(valid) ==
    LET n == Int2Num(Len(valid))
        sumX == SumNum(MapSeq(valid, LAMBDA r : r.time))
        sumY == SumNum(MapSeq(valid, LAMBDA r : r.microbe))
        sumXY == SumNum(MapSeq(valid, LAMBDA r : Mul(r.time, r.microbe)))
        sumX2 == SumNum(MapSeq(valid, LAMBDA r : Mul(r.time, r.time)))
        slope == Div(Sub(Mul(n, sumXY), Mul(sumX, sumY)),
                     Sub(Mul(n, sumX2), Square(sumX)))
        intercept == Sub(sumY, Mul(slope, sumX))
    IN  [intercept |-> intercept, slope |-> slope]

\* ordinary least squares on the valid rows
LinearFit(valid) ==
    LET n == Int2Num(Len(valid))
        sumX == SumNum(MapSeq(valid, LAMBDA r : r.time))
        sumY == SumNum(MapSeq(valid, LAMBDA r : r.microbe))
        sumXY == SumNum(MapSeq(valid, LAMBDA r : Mul(r.time, r.microbe)))
        sumX2 == SumNum(MapSeq(valid, LAMBDA r : Mul(r.time, r.time)))
        slope == Div(Sub(Mul(n, sumXY), Mul(sumX, sumY)),
                     Sub(Mul(n, sumX2), Square(sumX)))
        intercept == Div(Sub(sumY, Mul(slope, sumX)), n)
    IN  [intercept |-> intercept, slope |-> slope]

\* predict = (t) => intercept + slope * t
Predict(p, t) == Add(p.intercept, Mul(p.slope, ToNumber(t)))

\* mutant: only the valid rows are mapped
LinearFittedRows_ValidOnly(rows, p) ==
    MapSeq(ValidRows(rows), LAMBDA r : WithFitted(r, Predict(p, OrZero(r.time))))

\* mutant: the "|| 0" default of the time is left out
LinearFittedRows_NoTimeDefault(rows, p) ==
    MapSeq(rows, LAMBDA r : WithFitted(r, Predict(p, r.time)))

LinearFittedRows(rows, p) ==
    MapSeq(rows, LAMBDA r : WithFitted(r, Predict(p, OrZero(r.time))))

\* mutant: r2 without the guard on ssTot
computeMetrics_NoZeroGuard(valid, p) ==
    LET n == Int2Num(Len(valid))
        errors == MapSeq(valid, LAMBDA r : Sub(r.microbe, Predict(p, r.time)))
        mse == Div(SumNum(MapSeq(errors, Square)), n)
        yMean == Div(SumNum(MapSeq(valid, LAMBDA r : r.microbe)), n)
        ssTot == SumNum(MapSeq(valid, LAMBDA r : Square(Sub(r.microbe, yMean))))
        ssRes == SumNum(MapSeq(errors, Square))
    IN  [rmse |-> Sqrt(mse),
         mae |-> Div(SumNum(MapSeq(errors, AbsNum)), n),
         r2 |-> Sub(One, Div(ssRes, ssTot))]

computeMetrics(valid, p) ==
    LET n == Int2Num(Len(valid))
        errors == MapSeq(valid, LAMBDA r : Sub(r.microbe, Predict(p, r.time)))
        mse == Div(SumNum(MapSeq(errors, Square)), n)
        rmse == Sqrt(mse)
        mae == Div(SumNum(MapSeq(errors, AbsNum)), n)
        yMean == Div(SumNum(MapSeq(valid, LAMBDA r : r.microbe)), n)
        ssTot == SumNum(MapSeq(valid, LAMBDA r : Square(Sub(r.microbe, yMean))))
        ssRes == SumNum(MapSeq(errors, Square))
        r2 == IF Gt(ssTot, Zero) THEN Sub(One, Div(ssRes, ssTot)) ELSE One
    IN  [rmse |-> rmse, mae |-> mae, r2 |-> r2]

(***************************************************************************)
(* Math.random(): the k-th call of one run returns MathRandom(seed, k),    *)
(* a value of [0, 1); the seed is chosen freely for every run.             *)
(***************************************************************************)
RandomSeeds == {1, 2}

MathRandom(seed, k) ==
    CASE seed = 1 -> Fin(1, 2)
      [] OTHER -> IF k % 2 = 1 THEN Fin(9, 10) ELSE Fin(1, 10)

\* randomR2 = 0.85 + Math.random() * 0.10
randomR2(seed, k) == Add(Fin(85, 100), Mul(MathRandom(seed, k), Fin(10, 100)))

NoiseScale(m) == IF m = "ann" THEN Fin(12, 100) ELSE Fin(8, 100)

\* the k0+i-th draw scales row i: (r.microbe || 0) * (1 + (random - 0.5) * noiseScale)
SimulatedFittedRows(rows, m, seed, k0) ==
    [i \in 1..Len(rows) |->
        WithFitted(rows[i],
            Mul(ToNumber(OrZero(rows[i].microbe)),
                Add(One, Mul(Sub(MathRandom(seed, k0 + i), Fin(1, 2)), NoiseScale(m)))))]

SimulatedMetrics(seed, k0) ==
    LET fakeR2 == randomR2(seed, k0 + 1)
        fakeRMSE == Add(Mul(Sub(One, fakeR2), Fin(35, 10)),
                        Mul(MathRandom(seed, k0 + 2), Fin(3, 10)))
        fakeMAE == Mul(fakeRMSE,
                       Add(Fin(75, 100), Mul(MathRandom(seed, k0 + 3), Fin(15, 100))))
    IN  [rmse |-> fakeRMSE, mae |-> fakeMAE, r2 |-> fakeR2]

ModelKinds == {"linear", "ann", "svr", "gpr", "knn", "decision_tree", "weibull"}

\* the lookup { linear: "LINEAR", ... }[model]; a kind without entry gives undefined
ModelLabel(m) ==
    CASE m = "linear" -> [defined |-> TRUE, text |-> "LINEAR"]
      [] m = "ann" -> [defined |-> TRUE, text |-> "ANN"]
      [] m = "svr" -> [defined |-> TRUE, text |-> "SVR"]
      [] m = "gpr" -> [defined |-> TRUE, text |-> "GPR"]
      [] m = "knn" -> [defined |-> TRUE, text |-> "KNN"]
      [] m = "decision_tree" -> [defined |-> TRUE, text |-> "DT"]
      [] OTHER -> [defined |-> FALSE, text |-> ""]

\* the linear branch, given the slope and intercept p
LinearGroup(group, valid, p, k0) ==
    [fitted |-> LinearFittedRows(group.data, p),
     metrics |-> computeMetrics(valid, p),
     params |-> p,
     draws |-> k0]

\* one group of the loop: the rows, metrics and parameters "for temp"
FitGroup(group, m, seed, k0) ==
    IF m = "linear"
    THEN LinearGroup(group, ValidRows(group.data), LinearFit(ValidRows(group.data)), k0)
    ELSE [fitted |-> SimulatedFittedRows(group.data, m, seed, k0),
          metrics |-> SimulatedMetrics(seed, k0 + Len(group.data)),
          params |-> [simulated |-> TRUE],
          draws |-> k0 + Len(group.data) + 3]

EmptyAcc ==
    [allFittedData |-> <<>>,
     allMetrics |-> [rmse |-> Zero, mae |-> Zero, r2 |-> Zero],
     tempCount |-> 0, draws |-> 0, perGroup |-> <<>>]

\* the end of one iteration: allFittedData.push(...fitted), the sums, tempCount++
Accumulate(acc, temperature, g) ==
    [allFittedData |-> acc.allFittedData \o g.fitted,
     allMetrics |-> [rmse |-> Add(acc.allMetrics.rmse, g.metrics.rmse),
                     mae |-> Add(acc.allMetrics.mae, g.metrics.mae),
                     r2 |-> Add(acc.allMetrics.r2, g.metrics.r2)],
     tempCount |-> acc.tempCount + 1,
     draws |-> g.draws,
     perGroup |-> Append(acc.perGroup,
                     [temperature |-> temperature,
                      fitted |-> g.fitted,
                      metrics |-> g.metrics,
                      params |-> g.params])]

\* for (const group of temperatureGroups) { ... }
RECURSIVE FitLoop(_, _, _, _, _)
FitLoop(gs, i, m, seed, acc) ==
    IF i > Len(gs) THEN acc
    ELSE IF Len(ValidRows(gs[i].data)) < 2 THEN FitLoop(gs, i + 1, m, seed, acc)
    ELSE FitLoop(gs, i + 1, m, seed,
             Accumulate(acc, gs[i].temperature, FitGroup(gs[i], m, seed, acc.draws)))

AveragedMetrics(acc) ==
    [rmse |-> Div(acc.allMetrics.rmse, Int2Num(acc.tempCount)),
     mae |-> Div(acc.allMetrics.mae, Int2Num(acc.tempCount)),
     r2 |-> Div(acc.allMetrics.r2, Int2Num(acc.tempCount))]

Rejected(msg) == [status |-> "rejected", message |-> msg]

\* one run of fitMicrobialModel: the value its promise settles with (settled)
\* and the loop's locals (temperatureGroups, the fitted groups)
\* the return statement after the loop
ReturnFit(temperatureGroups, m, acc) ==
    [temperatureGroups |-> temperatureGroups,
     perGroup |-> acc.perGroup,
     settled |-> [status |-> "resolved",
                  modelName |-> ModelLabel(m),
                  parameters |-> <<>>,
                  metrics |-> AveragedMetrics(acc),
                  fittedData |-> acc.allFittedData]]

fitMicrobialModel(rows, m, seed) ==
    LET temperatureGroups == groupDataByTemperature(rows)
    IN  IF Len(temperatureGroups) = 0
        THEN [temperatureGroups |-> temperatureGroups, perGroup |-> <<>>,
              settled |-> Rejected("No valid data groups for fitting.")]
        ELSE ReturnFit(temperatureGroups, m,
                       FitLoop(temperatureGroups, 1, m, seed, EmptyAcc))


(***************************************************************************)
(* fitMicrobialModel, src/unnamed/part_008 (model fitting for each         *)
(* temperature separately; linear and Weibull; rSquared).                  *)
(***************************************************************************)
LinearFitPT(valid) ==
    LET n == Int2Num(Len(valid))
        sumX == SumNum(MapSeq(valid, LAMBDA r : ToNumber(OrZero(r.time))))
        sumY == SumNum(MapSeq(valid, LAMBDA r : ToNumber(OrZero(r.microbe))))
        sumXY == SumNum(MapSeq(valid,
                     LAMBDA r : Mul(ToNumber(OrZero(r.time)), ToNumber(OrZero(r.microbe)))))
        sumX2 == SumNum(MapSeq(valid, LAMBDA r : Square(ToNumber(OrZero(r.time)))))
        slope == Div(Sub(Mul(n, sumXY), Mul(sumX, sumY)),
                     Sub(Mul(n, sumX2), Square(sumX)))
        intercept == Div(Sub(sumY, Mul(slope, sumX)), n)
    IN  [intercept |-> intercept, slope |-> slope]

\* intercept + slope * (Number(row.time) || 0)
LinearFittedRowsPT(rows, p) ==
    MapSeq(rows, LAMBDA r :
        WithFitted(r, Add(p.intercept, Mul(p.slope, OrZero(ToNumber(r.time))))))

LinearRSquaredPT(valid, p) ==
    LET n == Int2Num(Len(valid))
        sumY == SumNum(MapSeq(valid, LAMBDA r : ToNumber(OrZero(r.microbe))))
        yMean == Div(sumY, n)
        ssTot == SumNum(MapSeq(valid,
                     LAMBDA r : Square(Sub(ToNumber(OrZero(r.microbe)), yMean))))
        ssRes == SumNum(MapSeq(valid, LAMBDA r :
                     Square(Sub(ToNumber(OrZero(r.microbe)),
                                Add(p.intercept, Mul(p.slope, ToNumber(OrZero(r.time))))))))
    IN  IF Gt(ssTot, Zero) THEN Sub(One, Div(ssRes, ssTot)) ELSE One

\* Math.exp(-x) for x = (5a/4b)^1.2, a, b in 1..3, to two decimals
ExpNegPow(x) ==
    CASE x = Fin(5, 12) -> Fin(70, 100)
      [] x = Fin(5, 8) -> Fin(57, 100)
      [] x = Fin(5, 6) -> Fin(45, 100)
      [] x = Fin(5, 4) -> Fin(27, 100)
      [] x = Fin(5, 3) -> Fin(16, 100)
      [] x = Fin(15, 8) -> Fin(12, 100)
      [] x = Fin(5, 2) -> Fin(5, 100)
      [] x = Fin(15, 4) -> Fin(1, 100)

\* survival = Math.exp(-Math.pow(t / delta, p)) with p = 1.2:
\* the power of a negative base is NaN, of 0 is 0, of either infinity +Infinity
Survival(t, delta) ==
    LET x == Div(t, delta)
    IN  CASE x.k = "nan" -> NaN
          [] x.k \in {"pinf", "ninf"} -> Zero
          [] x.n = 0 -> One
          [] x.n < 0 -> NaN
          [] OTHER -> ExpNegPow(x)

WeibullParams(valid) ==
    LET initialMicrobe == MaxNum(MapSeq(valid, LAMBDA r : ToNumber(OrZero(r.microbe))))
        finalMicrobe == MinNum(MapSeq(valid, LAMBDA r : ToNumber(OrZero(r.microbe))))
        maxTime == MaxNum(MapSeq(valid, LAMBDA r : ToNumber(OrZero(r.time))))
    IN  [delta |-> Mul(maxTime, Fin(8, 10)), p |-> Fin(12, 10),
         initialMicrobe |-> initialMicrobe, finalMicrobe |-> finalMicrobe]

\* mutant: the curve rises from the minimum instead of falling from the maximum
WeibullValue_FromMin(w, t) ==
    Add(w.finalMicrobe,
        Mul(Sub(w.initialMicrobe, w.finalMicrobe), Sub(One, Survival(t, w.delta))))

\* initialMicrobe + (finalMicrobe - initialMicrobe) * (1 - survival)
WeibullValue(w, t) ==
    Add(w.initialMicrobe,
        Mul(Sub(w.finalMicrobe, w.initialMicrobe), Sub(One, Survival(t, w.delta))))

WeibullFittedRows(rows, w) ==
    MapSeq(rows, LAMBDA r : WithFitted(r, WeibullValue(w, OrZero(ToNumber(r.time)))))

WeibullRSquared(valid, w) ==
    LET yMean == Div(SumNum(MapSeq(valid, LAMBDA r : ToNumber(OrZero(r.microbe)))),
                     Int2Num(Len(valid)))
        ssTot == SumNum(MapSeq(valid,
                     LAMBDA r : Square(Sub(ToNumber(OrZero(r.microbe)), yMean))))
        ssRes == SumNum(MapSeq(valid, LAMBDA r :
                     Square(Sub(ToNumber(OrZero(r.microbe)),
                                WeibullValue(w, ToNumber(OrZero(r.time)))))))
    IN  IF Gt(ssTot, Zero) THEN Sub(One, Div(ssRes, ssTot)) ELSE One

ModelKindsPT == {"linear", "weibull"}

\* the linear branch, given the slope and intercept p
LinearGroupPT(group, valid, p) ==
    [fitted |-> LinearFittedRowsPT(group.data, p),
     rSquared |-> LinearRSquaredPT(valid, p),
     params |-> p]

\* the Weibull branch, given delta, p and the two ends w of the curve
WeibullGroup(group, valid, w) ==
    [fitted |-> WeibullFittedRows(group.data, w),
     rSquared |-> WeibullRSquared(valid, w),
     params |-> [delta |-> w.delta, p |-> w.p, initialMicrobe |-> w.initialMicrobe]]

FitGroupPT(group, m) ==
    IF m = "linear"
    THEN LinearGroupPT(group, ValidRows(group.data), LinearFitPT(ValidRows(group.data)))
    ELSE WeibullGroup(group, ValidRows(group.data), WeibullParams(ValidRows(group.data)))

\* temperatureParameters[key] = value
SetProp(obj, key, value) ==
    IF \E i \in 1..Len(obj) : obj[i].key = key
    THEN [i \in 1..Len(obj) |->
            IF obj[i].key = key THEN [obj[i] EXCEPT !.value = value] ELSE obj[i]]
    ELSE Append(obj, [key |-> key, value |-> value])

EmptyAccPT ==
    [allFittedData |-> <<>>, totalRSquared |-> Zero,
     temperatureParameters |-> <<>>, perGroup |-> <<>>]

\* the end of one iteration: allFittedData.push(...fittedForTemp),
\* totalRSquared += rSquared, temperatureParameters[group.temperature] = params
AccumulatePT(acc, temperature, g) ==
    [allFittedData |-> acc.allFittedData \o g.fitted,
     totalRSquared |-> Add(acc.totalRSquared, g.rSquared),
     temperatureParameters |->
         SetProp(acc.temperatureParameters, ToPropertyKey(temperature), g.params),
     perGroup |-> Append(acc.perGroup,
                     [temperature |-> temperature,
                      fitted |-> g.fitted,
                      metrics |-> [r2 |-> g.rSquared],
                      params |-> g.params])]

RECURSIVE FitLoopPT(_, _, _, _)
FitLoopPT(gs, i, m, acc) ==
    IF i > Len(gs) THEN acc
    ELSE IF Len(ValidRows(gs[i].data)) < 2 THEN FitLoopPT(gs, i + 1, m, acc)
    ELSE FitLoopPT(gs, i + 1, m,
             AccumulatePT(acc, gs[i].temperature, FitGroupPT(gs[i], m)))

\* avgRSquared = temperatureGroups.length > 0 ? totalRSquared / temperatureGroups.length : 0
AvgRSquared(acc, temperatureGroups) ==
    IF Len(temperatureGroups) > 0
    THEN Div(acc.totalRSquared, Int2Num(Len(temperatureGroups)))
    ELSE Zero

ModelNamePT(m) ==
    [defined |-> TRUE,
     text |-> IF m = "linear" THEN "Linear Regression (Per Temperature)"
              ELSE "Weibull Model (Per Temperature)"]

\* the return statement after the loop
ReturnFitPT(temperatureGroups, m, acc, avgRSquared) ==
    [temperatureGroups |-> temperatureGroups,
     perGroup |-> acc.perGroup,
     settled |-> [status |-> "resolved",
                  modelName |-> ModelNamePT(m),
                  parameters |-> [averageRSquared |-> avgRSquared,
                                  temperatureParameters |-> acc.temperatureParameters],
                  rSquared |-> avgRSquared,
                  fittedData |-> acc.allFittedData]]

\* the statements after the loop
AfterLoopPT(temperatureGroups, m, acc) ==
    ReturnFitPT(temperatureGroups, m, acc, AvgRSquared(acc, temperatureGroups))

fitMicrobialModelPT(rows, m) ==
    LET temperatureGroups == groupDataByTemperature(rows)
    IN  IF Len(temperatureGroups) = 0
        THEN [temperatureGroups |-> temperatureGroups, perGroup |-> <<>>,
              settled |-> Rejected("No valid data groups for fitting.")]
        ELSE AfterLoopPT(temperatureGroups, m,
                         FitLoopPT(temperatureGroups, 1, m, EmptyAccPT))

(***************************************************************************)
(* The inputs: up to MaxRows rows of RowSet, in any order and with         *)
(* repetition, pushed one by one as the parser's loop does.  Temperature   *)
(* 10 holds points of the line y = 2x + 3, a point off it, a row whose     *)
(* microbe cell is no number (NaN) and a row without time field;           *)
(* temperature -5 one point; one row has no temperature field.             *)
(***************************************************************************)
Point(temperature, time, microbe) ==
    [time |-> time, temperature |-> temperature, microbe |-> microbe]

RowSet ==
    { Point(Int2Num(10), Int2Num(0), Int2Num(3)),
      Point(Int2Num(10), Int2Num(1), Int2Num(5)),
      Point(Int2Num(10), Int2Num(2), Int2Num(3)),
      Point(Int2Num(10), Int2Num(1), NaN),
      Point(Int2Num(10), Undefined, Int2Num(5)),
      Point(Int2Num(-5), Int2Num(2), Int2Num(5)),
      Point(Undefined, Int2Num(0), Int2Num(3)) }

\* the kinds that take the simulated branch: every kind but "linear", also
\* "weibull", which the modeler's selector passes
SimulatedKinds == ModelKinds \ {"linear"}

NoResult == [status |-> "none"]

Init ==
    /\ data = <<>>
    /\ op = "input"
    /\ model = "none"
    /\ groups = <<>>
    /\ perGroup = <<>>
    /\ result = NoResult
    /\ text = <<>>
    /\ parser = "none"
    /\ parsed = NoResult
    /\ summary = NoResult
    /\ rawData = <<>>
    /\ selectedModel = "linear"
    /\ isFitting = FALSE
    /\ fitResult = [status |-> "null"]
    /\ errorMessage = [status |-> "null"]
    /\ fitCall = NoResult
    /\ inFlight = 0
    /\ server = "none"
    /\ userSessions = [s \in {"s1", "s2"} |-> 0]
    /\ arrays = <<>>
    /\ requests = <<>>
    /\ messages = <<>>
    /\ input = <<>>
    /\ loading = FALSE
    /\ chatInFlight = 0
    /\ chatOp = "none"
    /\ uploader = "none"
    /\ files = <<>>
    /\ selectedFile = 0
    /\ progress = 0
    /\ isUploading = FALSE
    /\ statusMessage = "null"
    /\ canLoadSample = TRUE
    /\ interval = 0
    /\ sampleFetches = <<>>
    /\ uploadOp = "none"

\* rows.push(row): the row set grows by one parsed row
LoadRow ==
    /\ op = "input"
    /\ Len(data) < MaxRows
    /\ \E p \in RowSet :
         data' = Append(data, Row(Len(data) + 1, p.time, p.temperature, p.microbe))
    /\ UNCHANGED <<op, model, groups, perGroup, result, outsideFit>>

\* a call of groupDataByTemperature(data)
Group ==
    /\ op = "input"
    /\ op' = "group"
    /\ groups' = groupDataByTemperature(data)
    /\ UNCHANGED <<data, model, perGroup, result, outsideFit>>

\* a call of fitMicrobialModel(data, "linear") of microbialUtils.ts, run to
\* its end (the linear branch draws no random number)
Fit ==
    /\ op = "input"
    /\ \E run \in {fitMicrobialModel(data, "linear", 1)} :
            /\ model' = "linear"
            /\ groups' = run.temperatureGroups
            /\ perGroup' = run.perGroup
            /\ result' = run.settled
    /\ op' = "fit"
    /\ UNCHANGED <<data, outsideFit>>

\* a call of fitMicrobialModel(data, m) of microbialUtils.ts with a simulated
\* model kind, run to its end
FitSimulated ==
    /\ op = "input"
    /\ Len(data) <= MaxSimulatedRows
    /\ \E m \in SimulatedKinds : \E seed \in RandomSeeds :
            \E run \in {fitMicrobialModel(data, m, seed)} :
                /\ model' = m
                /\ groups' = run.temperatureGroups
                /\ perGroup' = run.perGroup
                /\ result' = run.settled
    /\ op' = "fit"
    /\ UNCHANGED <<data, outsideFit>>

\* a call of fitMicrobialModel(data, m) of part_008, run to its end
FitPT ==
    /\ op = "input"
    /\ \E m \in ModelKindsPT :
            \E run \in {fitMicrobialModelPT(data, m)} :
                /\ model' = m
                /\ groups' = run.temperatureGroups
                /\ perGroup' = run.perGroup
                /\ result' = run.settled
    /\ op' = "fitPT"
    /\ UNCHANGED <<data, outsideFit>>

Next == LoadRow \/ Group \/ Fit \/ FitSimulated \/ FitPT

Spec == Init /\ [][Next]_vars


(***************************************************************************)
(* Vocabulary of the properties.                                           *)
(***************************************************************************)
Resolved == op \in {"fit", "fitPT"} /\ result.status = "resolved"

Strip(f) == Row(f.ref, f.time, f.temperature, f.microbe)

HasEnoughRows(g) == Len(ValidRows(g.data)) >= 2

\* the groups the loop does not skip, in loop order
GroupsFit == SelectSeq(groups, HasEnoughRows)

RECURSIVE Concat(_)
Concat(ss) == IF ss = <<>> THEN <<>> ELSE Head(ss) \o Concat(Tail(ss))

Mean(s) == Div(SumNum(s), Int2Num(Len(s)))

\* the time a prediction is computed at: the row's time, 0 when it is no number
TimeOf(r) == IF NumberIsFinite(ToNumber(r.time)) THEN ToNumber(r.time) ELSE Zero

ValidMicrobes(rows) == MapSeq(ValidRows(rows), LAMBDA r : r.microbe)

Between(lo, x, hi) == ~Lt(x, lo) /\ ~Gt(x, hi) /\ x.k = "fin"

\* C1: fitMicrobialModel rejects whenever no temperature group has at least
\* 2 valid rows, also when groups exist but each has fewer than 2 valid rows.
C1_RejectsWithoutFittableGroup ==
    (op \in {"fit", "fitPT"} /\ Len(GroupsFit) = 0) => result.status = "rejected"

\* C2: groupDataByTemperature partitions exactly the rows with a finite
\* Number(temperature): each is in exactly one group, the one of its
\* temperature; other rows are in no group; no group is empty; the groups are
\* in strictly ascending temperature order.
C2_GroupsPartitionFiniteTemperatures ==
    op # "input" =>
        /\ \A i \in 1..Len(data) :
             LET t == ToNumber(data[i].temperature)
                 places == {<<g, j>> \in (1..Len(groups)) \X (1..Len(data)) :
                               j <= Len(groups[g].data) /\ groups[g].data[j] = data[i]}
             IN  IF NumberIsFinite(t)
                 THEN /\ Cardinality(places) = 1
                      /\ \A pl \in places : groups[pl[1]].temperature = t
                 ELSE places = {}
        /\ \A g \in 1..Len(groups) :
             /\ Len(groups[g].data) > 0
             /\ \A j \in 1..Len(groups[g].data) :
                  \E i \in 1..Len(data) : data[i] = groups[g].data[j]
        /\ \A g \in 1..(Len(groups) - 1) :
             Lt(groups[g].temperature, groups[g + 1].temperature)

\* two groups come out in ascending order although the rows came in descending
\* order, and a row without temperature is left out
C2_Witness ==
    /\ op = "group"
    /\ Len(groups) = 2
    /\ Len(data) = 4
    /\ data[1].temperature = Int2Num(10)
    /\ data[2].temperature = Int2Num(-5)
    /\ data[3].temperature = Undefined
    /\ data[4].temperature = Int2Num(10)
    /\ groups[1].temperature = Int2Num(-5)

\* C3: the aggregate metrics (rmse, mae, r2; rSquared in part_008) are the
\* arithmetic mean of the per-group metric over exactly the groups that were
\* fit; a skipped group is neither summed nor counted.
C3_AggregateIsMeanOverFitGroups ==
    (Resolved /\ Len(GroupsFit) > 0) =>
        /\ Len(perGroup) = Len(GroupsFit)
        /\ IF op = "fit"
           THEN /\ result.metrics.r2 = Mean(MapSeq(perGroup, LAMBDA g : g.metrics.r2))
                /\ result.metrics.rmse = Mean(MapSeq(perGroup, LAMBDA g : g.metrics.rmse))
                /\ result.metrics.mae = Mean(MapSeq(perGroup, LAMBDA g : g.metrics.mae))
           ELSE result.rSquared = Mean(MapSeq(perGroup, LAMBDA g : g.metrics.r2))

\* the per-temperature parameter mapping of a result
ParameterEntries ==
    IF op = "fit" THEN result.parameters ELSE result.parameters.temperatureParameters

\* C4: the result of a linear fit carries a per-temperature parameter mapping
\* with exactly one entry for each group that was fit, holding that group's
\* fitted parameters.
C4_OneParameterEntryPerFitGroup ==
    (Resolved /\ model = "linear") =>
        /\ Len(ParameterEntries) = Len(perGroup)
        /\ \A g \in 1..Len(perGroup) :
             /\ ParameterEntries[g].key = ToPropertyKey(perGroup[g].temperature)
             /\ ParameterEntries[g].value = perGroup[g].params

\* C5: fittedData holds exactly the rows of the groups that were fit, one
\* output row per input row, none duplicated or dropped; when every row has a
\* finite temperature and every group has 2 valid rows its length is the
\* input's.
C5_FittedDataCoversFitGroups ==
    Resolved =>
        /\ MapSeq(result.fittedData, Strip)
             = Concat(MapSeq(GroupsFit, LAMBDA g : g.data))
        /\ \A i, j \in 1..Len(result.fittedData) :
             result.fittedData[i].ref = result.fittedData[j].ref => i = j
        /\ ( /\ \A i \in 1..Len(data) : NumberIsFinite(ToNumber(data[i].temperature))
             /\ Len(GroupsFit) = Len(groups) )
           => Len(result.fittedData) = Len(data)

\* two groups are fit and every input row comes back
C5_Witness ==
    /\ Resolved
    /\ Len(data) = 4
    /\ Len(GroupsFit) = 2
    /\ Len(result.fittedData) = 4

LineSlopes == -2..2
LineIntercepts == 0..7

\* the valid rows among fitted rows fs lie on microbe = a * time + b and have
\* at least two distinct times
OnLine(fs, a, b) ==
    /\ \A i \in 1..Len(fs) :
         IsValidRow(fs[i]) =>
             fs[i].microbe = Add(Mul(Int2Num(a), fs[i].time), Int2Num(b))
    /\ \E i, j \in 1..Len(fs) :
         IsValidRow(fs[i]) /\ IsValidRow(fs[j]) /\ fs[i].time # fs[j].time

\* fitted group g has slope a, intercept b and the metrics of an exact fit
LineRecovered(g, a, b) ==
    /\ perGroup[g].params.slope = Int2Num(a)
    /\ perGroup[g].params.intercept = Int2Num(b)
    /\ perGroup[g].metrics.r2 = One
    /\ op = "fit" =>
         /\ perGroup[g].metrics.rmse = Zero
         /\ perGroup[g].metrics.mae = Zero

SameMicrobes(fs) ==
    \A i, j \in 1..Len(fs) :
        (IsValidRow(fs[i]) /\ IsValidRow(fs[j])) => fs[i].microbe = fs[j].microbe

SameTimes(fs) ==
    \A i, j \in 1..Len(fs) :
        (IsValidRow(fs[i]) /\ IsValidRow(fs[j])) => fs[i].time = fs[j].time

RowsReturnedUnchanged ==
    /\ Len(perGroup) = Len(GroupsFit)
    /\ \A g \in 1..Len(perGroup) :
         MapSeq(perGroup[g].fitted, Strip) = GroupsFit[g].data
    /\ \A i \in 1..Len(data) :
         DOMAIN data[i] = {"ref", "time", "temperature", "microbe"}

\* C9 as stated: in a fitted group every row, valid or not, is returned with
\* a microbe_fitted computed from the row's time by the group's prediction
\* function (so rows of one group with the same time get the same value), the
\* other fields unchanged and the input not mutated.
C9_EveryRowPredictedFromTime ==
    Resolved =>
        /\ RowsReturnedUnchanged
        /\ \A g \in 1..Len(perGroup) :
             \A i, j \in 1..Len(perGroup[g].fitted) :
                 TimeOf(perGroup[g].fitted[i]) = TimeOf(perGroup[g].fitted[j])
                     => perGroup[g].fitted[i].microbe_fitted
                            = perGroup[g].fitted[j].microbe_fitted

\* the value the amended C9 gives row f of a fitted group
PredictedFromTime(g, f) ==
    IF model = "linear"
    THEN f.microbe_fitted
            = Add(perGroup[g].params.intercept,
                  Mul(perGroup[g].params.slope, TimeOf(f)))
    ELSE LET top == perGroup[g].params.initialMicrobe
             low == MinNum(ValidMicrobes(GroupsFit[g].data))
         IN  f.microbe_fitted
                = Add(top, Mul(Sub(low, top),
                               Sub(One, Survival(TimeOf(f), perGroup[g].params.delta))))

\* the simulated kinds: the row's microbe, 0 when missing, within noiseScale / 2 of it
NoisyCopyOfMicrobe(f) ==
    LET m0 == IF NumberIsFinite(ToNumber(f.microbe)) THEN ToNumber(f.microbe) ELSE Zero
        half == Mul(m0, Div(NoiseScale(model), Int2Num(2)))
    IN  Between(Sub(m0, half), f.microbe_fitted, Add(m0, half))

\* C9 as amended: every row of a fitted group is returned, other fields
\* unchanged, input not mutated; for the linear kind and the Weibull kind of
\* part_008 microbe_fitted is the group's prediction at the row's time, 0 for a
\* time that is missing or no number, also for rows without microbe; for the
\* simulated kinds it is the row's microbe, 0 when missing, scaled by noise.
C9_EveryRowReturnedWithFittedValue ==
    Resolved =>
        /\ RowsReturnedUnchanged
        /\ \A g \in 1..Len(perGroup) :
             \A i \in 1..Len(perGroup[g].fitted) :
                 IF model = "linear" \/ op = "fitPT"
                 THEN PredictedFromTime(g, perGroup[g].fitted[i])
                 ELSE NoisyCopyOfMicrobe(perGroup[g].fitted[i])

\* a group fitted to y = 2x + 3 holds a row whose microbe is NaN, fitted at
\* its time 1 to 5, and a row without time, fitted at time 0 to 3
C9_Witness ==
    /\ Resolved /\ op = "fit" /\ model = "linear"
    /\ Len(perGroup) = 1
    /\ perGroup[1].params.slope = Int2Num(2)
    /\ \E i, j \in 1..Len(perGroup[1].fitted) :
         /\ perGroup[1].fitted[i].microbe = NaN
         /\ perGroup[1].fitted[i].time = Int2Num(1)
         /\ perGroup[1].fitted[i].microbe_fitted = Int2Num(5)
         /\ perGroup[1].fitted[j].time = Undefined
         /\ perGroup[1].fitted[j].microbe_fitted = Int2Num(3)

WeibullFit == Resolved /\ op = "fitPT" /\ model = "weibull"

MaxValidTime(g) == MaxNum(MapSeq(ValidRows(GroupsFit[g].data), LAMBDA r : r.time))
MaxMicrobe(g) == MaxNum(ValidMicrobes(GroupsFit[g].data))
MinMicrobe(g) == MinNum(ValidMicrobes(GroupsFit[g].data))

WeibullParameters(g) ==
    /\ perGroup[g].params.delta = Mul(Fin(8, 10), MaxValidTime(g))
    /\ perGroup[g].params.p = Fin(12, 10)

\* C10 as stated: delta = 0.8 * max(time), p = 1.2, the fitted value is
\* N_min + (N_max - N_min) * (1 - S(t)); so a row at time 0 is fitted to N_min
\* and every fitted value lies between N_min and N_max.
C10_WeibullRisesFromMinimum ==
    WeibullFit =>
        \A g \in 1..Len(perGroup) :
            /\ WeibullParameters(g)
            /\ \A i \in 1..Len(perGroup[g].fitted) :
                 LET f == perGroup[g].fitted[i]
                     S == Survival(TimeOf(f), perGroup[g].params.delta)
                 IN  /\ f.microbe_fitted
                          = Add(MinMicrobe(g),
                                Mul(Sub(MaxMicrobe(g), MinMicrobe(g)), Sub(One, S)))
                     /\ TimeOf(f) = Zero => f.microbe_fitted = MinMicrobe(g)
                     /\ Between(MinMicrobe(g), f.microbe_fitted, MaxMicrobe(g))

\* C10 as amended: delta = 0.8 * max(time), p = 1.2, the fitted value is
\* N_max + (N_min - N_max) * (1 - S(t)); so a row at time 0 is fitted to N_max
\* when max(time) is not 0, and every fitted value whose S(t) is a number lies
\* between N_min and N_max.
C10_WeibullFallsFromMaximum ==
    WeibullFit =>
        \A g \in 1..Len(perGroup) :
            /\ WeibullParameters(g)
            /\ \A i \in 1..Len(perGroup[g].fitted) :
                 LET f == perGroup[g].fitted[i]
                     S == Survival(TimeOf(f), perGroup[g].params.delta)
                 IN  /\ f.microbe_fitted
                          = Add(MaxMicrobe(g),
                                Mul(Sub(MinMicrobe(g), MaxMicrobe(g)), Sub(One, S)))
                     /\ (TimeOf(f) = Zero /\ MaxValidTime(g) # Zero)
                           => f.microbe_fitted = MaxMicrobe(g)
                     /\ S.k = "fin"
                           => Between(MinMicrobe(g), f.microbe_fitted, MaxMicrobe(g))

\* a group with N_max = 5 > N_min = 3 and max(time) = 2: the row at time 0 is
\* fitted to 5, the row at time 1 strictly between 3 and 5
C10_Witness ==
    /\ WeibullFit
    /\ Len(perGroup) = 1
    /\ MaxMicrobe(1) = Int2Num(5) /\ MinMicrobe(1) = Int2Num(3)
    /\ perGroup[1].params.delta = Fin(16, 10)
    /\ \E i, j \in 1..Len(perGroup[1].fitted) :
         /\ perGroup[1].fitted[i].time = Zero
         /\ perGroup[1].fitted[i].microbe_fitted = Int2Num(5)
         /\ perGroup[1].fitted[j].time = One
         /\ perGroup[1].fitted[j].microbe_fitted = Fin(414, 100)

\* C11: for every model kind the modeler's selector offers (linear, weibull)
\* and every kind the fitter accepts, a fit that resolves returns a defined,
\* non-empty model name label.
C11_ModelNameIsDefined ==
    Resolved => (result.modelName.defined /\ result.modelName.text # "")

(***************************************************************************)
(* parseCSVFile.  A text is the sequence of its lines (the pieces between  *)
(* line breaks); a line is a sequence of tokens: Comma, Quote, Space and   *)
(* words, the maximal runs of other characters.  A string is a sequence of *)
(* tokens as well.                                                         *)
(***************************************************************************)
Comma == ","
Quote == "\""
Space == " "

\* String.prototype.trim on a string of tokens
RECURSIVE TrimLeft(_)
TrimLeft(s) == IF s # <<>> /\ Head(s) = Space THEN TrimLeft(Tail(s)) ELSE s

RECURSIVE TrimRight(_)
TrimRight(s) ==
    IF s # <<>> /\ s[Len(s)] = Space THEN TrimRight(SubSeq(s, 1, Len(s) - 1)) ELSE s

Trim(s) == TrimLeft(TrimRight(s))

\* toLowerCase of the words that occur
LowerWord(w) ==
    CASE w = "T" -> "t"
      [] w = "Temp" -> "temp"
      [] w = "CFU" -> "cfu"
      [] OTHER -> w

ToLowerCase(s) == [i \in 1..Len(s) |-> LowerWord(s[i])]

\* the decimal numerals that occur and their values
NumeralValue(w) ==
    CASE w = "1" -> 1
      [] w = "2" -> 2
      [] w = "25" -> 25
      [] w = "50" -> 50
      [] w = "100" -> 100
      [] w = "000" -> 0
      [] OTHER -> -1

\* Number(s) of a string: white space is trimmed, "" is 0, a numeral is its
\* value, any other text is NaN
StringToNumber(s) ==
    LET t == Trim(s)
    IN  IF t = <<>> THEN Zero
        ELSE IF Len(t) = 1 /\ NumeralValue(t[1]) >= 0 THEN Int2Num(NumeralValue(t[1]))
        ELSE NaN

\* a string as a JavaScript value
Str(s) == [k |-> "str", n |-> 0, d |-> 1, s |-> s]

\* Number(v) of a cell value: a string, a number or undefined
NumberOfCell(v) == IF v.k = "str" THEN StringToNumber(v.s) ELSE ToNumber(v)

\* line.split(","): every comma is a delimiter
RECURSIVE SplitAtCommas(_, _, _)
SplitAtCommas(line, i, cur) ==
    IF i > Len(line) THEN <<cur>>
    ELSE IF line[i] = Comma THEN <<cur>> \o SplitAtCommas(line, i + 1, <<>>)
    ELSE SplitAtCommas(line, i + 1, Append(cur, line[i]))

\* splitCSVLine: a quote toggles inQuotes and is dropped, a comma outside
\* quotes ends the field, every field is trimmed
RECURSIVE SplitCSVLoop(_, _, _, _)
SplitCSVLoop(line, i, cur, inQuotes) ==
    IF i > Len(line) THEN <<Trim(cur)>>
    ELSE IF line[i] = Quote THEN SplitCSVLoop(line, i + 1, cur, ~inQuotes)
    ELSE IF line[i] = Comma /\ ~inQuotes
         THEN <<Trim(cur)>> \o SplitCSVLoop(line, i + 1, <<>>, FALSE)
    ELSE SplitCSVLoop(line, i + 1, Append(cur, line[i]), inQuotes)

splitCSVLine(line) == SplitCSVLoop(line, 1, <<>>, FALSE)

IsBlank(line) == Trim(line) = <<>>

\* array.indexOf(x), counted from 1; 0 when x is absent (JavaScript's -1)
IndexOf(s, x) ==
    IF \E i \in 1..Len(s) : s[i] = x
    THEN CHOOSE i \in 1..Len(s) : s[i] = x /\ \A j \in 1..(i - 1) : s[j] # x
    ELSE 0

\* cols[idx]: undefined beyond the end of the array
At(cols, idx) == IF idx \in 1..Len(cols) THEN Str(cols[idx]) ELSE Undefined

\* the lines of a text; the empty text is one empty line
SplitLines(t) == IF t = <<>> THEN << <<>> >> ELSE t

RECURSIVE DropBlankHead(_)
DropBlankHead(ls) ==
    IF ls # <<>> /\ IsBlank(Head(ls)) THEN DropBlankHead(Tail(ls)) ELSE ls

RECURSIVE DropBlankTail(_)
DropBlankTail(ls) ==
    IF ls # <<>> /\ IsBlank(ls[Len(ls)])
    THEN DropBlankTail(SubSeq(ls, 1, Len(ls) - 1))
    ELSE ls

\* text.trim().split(/\r?\n/): white space, line breaks included, is cut from
\* both ends of the text; blank lines inside it stay
TrimmedLines(t) ==
    LET ls == DropBlankTail(DropBlankHead(SplitLines(t)))
    IN  IF ls = <<>> THEN << <<>> >>
        ELSE [i \in 1..Len(ls) |->
                 IF i = 1 /\ i = Len(ls) THEN Trim(ls[i])
                 ELSE IF i = 1 THEN TrimLeft(ls[i])
                 ELSE IF i = Len(ls) THEN TrimRight(ls[i])
                 ELSE ls[i]]

TrimAll(fields) == [i \in 1..Len(fields) |-> Trim(fields[i])]

LowerAll(fields) == [i \in 1..Len(fields) |-> ToLowerCase(fields[i])]

ParsedRows(rows, lines, fields) ==
    [status |-> "resolved", rows |-> rows, lines |-> lines, fields |-> fields]

\* the loop over the data lines of microbialUtils.ts: one row per line
DataRows(lines, timeIdx, tempIdx, microIdx) ==
    [i \in 1..(Len(lines) - 1) |->
        Row(i,
            NumberOfCell(At(TrimAll(SplitAtCommas(lines[i + 1], 1, <<>>)), timeIdx)),
            NumberOfCell(At(TrimAll(SplitAtCommas(lines[i + 1], 1, <<>>)), tempIdx)),
            NumberOfCell(At(TrimAll(SplitAtCommas(lines[i + 1], 1, <<>>)), microIdx)))]

\* the part of parseCSVFile after the header was read
ParseWithHeader(lines, header) ==
    IF \/ IndexOf(header, <<"time">>) = 0
       \/ IndexOf(header, <<"temperature">>) = 0
       \/ IndexOf(header, <<"microbe">>) = 0
    THEN Rejected("CSV must include columns: time, temperature, microbe")
    ELSE ParsedRows(
             DataRows(lines, IndexOf(header, <<"time">>),
                      IndexOf(header, <<"temperature">>), IndexOf(header, <<"microbe">>)),
             Tail(lines),
             [i \in 1..(Len(lines) - 1) |->
                 TrimAll(SplitAtCommas(lines[i + 1], 1, <<>>))])

\* the part of parseCSVFile after the text was split into lines
ParseLines(lines) ==
    IF Len(lines) < 2 THEN ParsedRows(<<>>, <<>>, <<>>)
    ELSE ParseWithHeader(lines, LowerAll(TrimAll(SplitAtCommas(lines[1], 1, <<>>))))

\* parseCSVFile of microbialUtils.ts
parseCSVFile(t) == ParseLines(TrimmedLines(t))

\* header[j] || `col${j}`, j counted from 0 in the code
ColumnKey(header, j) ==
    IF header[j] # <<>> THEN header[j]
    ELSE CASE j = 1 -> <<"col0">>
           [] j = 2 -> <<"col1">>
           [] j = 3 -> <<"col2">>
           [] OTHER -> <<"col3">>

\* obj[key] = items[j] ?? "" for every column of the header
RECURSIVE BuildObject(_, _, _, _)
BuildObject(header, items, j, obj) ==
    IF j > Len(header) THEN obj
    ELSE BuildObject(header, items, j + 1,
             SetProp(obj, ColumnKey(header, j),
                     IF j <= Len(items) THEN items[j] ELSE <<>>))

\* "Convert numeric-like fields": "" stays "", a numeral becomes its number,
\* other text stays a string
ConvertCell(v) ==
    IF Trim(v) = <<>> THEN Str(<<>>)
    ELSE IF Len(Trim(v)) = 1 /\ NumeralValue(Trim(v)[1]) >= 0
         THEN Int2Num(NumeralValue(Trim(v)[1]))
    ELSE Str(Trim(v))

ConvertObject(obj) ==
    [i \in 1..Len(obj) |-> [key |-> obj[i].key, value |-> ConvertCell(obj[i].value)]]

\* map[k]; undefined for a key the object does not have
PropValue(obj, key) ==
    IF \E i \in 1..Len(obj) : obj[i].key = key
    THEN obj[CHOOSE i \in 1..Len(obj) : obj[i].key = key].value
    ELSE Undefined

TimeWords == {<<"time">>, <<"t">>, <<"hours">>, <<"minute">>, <<"min">>}
TemperatureWords == {<<"temperature">>, <<"temp">>, <<"°c">>, <<"c">>}
MicrobeWords ==
    {<<"microbe">>, <<"count">>, <<"cfu">>, <<"concentration">>, <<"value">>, <<"target">>}

\* if (nk is one of words) map[field] = Number(map[k])
MapSynonym(map, k, words, field) ==
    IF ToLowerCase(Trim(k)) \in words
    THEN SetProp(map, field, NumberOfCell(PropValue(map, k)))
    ELSE map

\* for (const k of Object.keys(map)) { ... }: the keys are those the object
\* had before the loop
RECURSIVE MapSynonyms(_, _, _)
MapSynonyms(map, keys, i) ==
    IF i > Len(keys) THEN map
    ELSE MapSynonyms(
             MapSynonym(
                 MapSynonym(
                     MapSynonym(map, keys[i], TimeWords, <<"time">>),
                     keys[i], TemperatureWords, <<"temperature">>),
                 keys[i], MicrobeWords, <<"microbe">>),
             keys, i + 1)

RowOfMap(ref, map) ==
    Row(ref, PropValue(map, <<"time">>), PropValue(map, <<"temperature">>),
        PropValue(map, <<"microbe">>))

KeysOf(obj) == [i \in 1..Len(obj) |-> obj[i].key]

\* one data line of part_008: split, build the object, convert, map synonyms
ParseLinePT(ref, header, line) ==
    RowOfMap(ref,
        MapSynonyms(ConvertObject(BuildObject(header, splitCSVLine(line), 1, <<>>)),
                    KeysOf(BuildObject(header, splitCSVLine(line), 1, <<>>)), 1))

ParseLinesPT(lines) ==
    IF Len(lines) = 0 THEN ParsedRows(<<>>, <<>>, <<>>)
    ELSE ParsedRows(
             [i \in 1..(Len(lines) - 1) |->
                 ParseLinePT(i, TrimAll(SplitAtCommas(lines[1], 1, <<>>)), lines[i + 1])],
             Tail(lines),
             [i \in 1..(Len(lines) - 1) |-> splitCSVLine(lines[i + 1])])

\* parseCSVFile of part_008: blank lines are filtered out first
parseCSVFilePT(t) ==
    ParseLinesPT(SelectSeq(SplitLines(t), LAMBDA l : ~IsBlank(l)))

(***************************************************************************)
(* The CSV upload as a state machine: a text is put together line by line, *)
(* then read by parseCSVFile of either variant, then its rows are grouped. *)
(***************************************************************************)
MaxLines == 4

HeaderLine == <<"time", Comma, "temperature", Comma, "microbe">>

SynonymHeaderLine == <<"T", Comma, Space, "Temp", Comma, Space, "CFU">>

PlainLine == <<"1", Comma, "25", Comma, "100">>

QuotedLine == <<Quote, "1", Comma, "000", Quote, Comma, "25", Comma, "100">>

EmptyTemperatureLine == <<"2", Comma, Comma, "50">>

ShortLine == <<"2">>

EmptyLine == <<>>

SpaceLine == <<Space>>

LineSet ==
    { HeaderLine, SynonymHeaderLine, PlainLine, QuotedLine,
      EmptyTemperatureLine, ShortLine, EmptyLine, SpaceLine }

\* one more line of the file
TypeLine ==
    /\ parser = "none"
    /\ op = "input"
    /\ Len(text) < MaxLines
    /\ \E l \in LineSet : text' = Append(text, l)
    /\ UNCHANGED <<parser, parsed, op, groups, outsideCSV>>

\* parseCSVFile of microbialUtils.ts reads the text
ParseCSV ==
    /\ parser = "none"
    /\ op = "input"
    /\ parser' = "microbialUtils"
    /\ parsed' = parseCSVFile(text)
    /\ UNCHANGED <<text, op, groups, outsideCSV>>

\* parseCSVFile of part_008 reads the text
ParseCSVPT ==
    /\ parser = "none"
    /\ op = "input"
    /\ parser' = "part_008"
    /\ parsed' = parseCSVFilePT(text)
    /\ UNCHANGED <<text, op, groups, outsideCSV>>

\* the parsed rows are grouped by temperature, as a fit of them does first
GroupParsed ==
    /\ parser # "none"
    /\ op = "input"
    /\ parsed.status = "resolved"
    /\ op' = "group"
    /\ groups' = groupDataByTemperature(parsed.rows)
    /\ UNCHANGED <<text, parser, parsed, outsideCSV>>

NextCSV == TypeLine \/ ParseCSV \/ ParseCSVPT \/ GroupParsed

SpecCSV == Init /\ [][NextCSV]_vars

(***************************************************************************)
(* Claims about parseCSVFile.                                              *)
(***************************************************************************)
NonBlankLines(t) == SelectSeq(SplitLines(t), LAMBDA l : ~IsBlank(l))

Parsed == parser # "none"

\* C12: parseCSVFile fails with a format error whenever the text has fewer
\* than 2 non-blank lines (empty text, only blank lines, or a header with no
\* data line); no row sequence is produced then.
C12_FailsBelowTwoLines ==
    (Parsed /\ Len(NonBlankLines(text)) < 2) => parsed.status = "rejected"

\* the first non-blank line of the text is a header naming the temperature
\* column second
TemperatureIsSecondColumn ==
    /\ NonBlankLines(text) # <<>>
    /\ Head(NonBlankLines(text)) \in {HeaderLine, SynonymHeaderLine}

\* the temperature field of a split data line is empty or absent
TemperatureMissing(fields) == Len(fields) < 2 \/ fields[2] = <<>>

InNoGroup(row) ==
    \A g \in 1..Len(groups) : \A j \in 1..Len(groups[g].data) : groups[g].data[j] # row

\* C13: a data line whose temperature field is empty or absent yields a row
\* that stays in the parsed rows but is in no temperature group.
C13_MissingTemperatureIsUngrouped ==
    (Parsed /\ op = "group" /\ TemperatureIsSecondColumn) =>
        \A i \in 1..Len(parsed.rows) :
            TemperatureMissing(parsed.fields[i]) => InNoGroup(parsed.rows[i])

\* the number of commas of a line that are outside quoted segments
RECURSIVE CommasOutsideQuotes(_, _, _)
CommasOutsideQuotes(line, i, inQuotes) ==
    IF i > Len(line) THEN 0
    ELSE IF line[i] = Quote THEN CommasOutsideQuotes(line, i + 1, ~inQuotes)
    ELSE (IF line[i] = Comma /\ ~inQuotes THEN 1 ELSE 0)
            + CommasOutsideQuotes(line, i + 1, inQuotes)

ParsedToRows == Parsed /\ parsed.status = "resolved"

\* C14: parseCSVFile splits each data line on the commas outside quoted
\* segments only, so a line with k such commas yields exactly k+1 fields (the
\* line "1,000",25,100 yields 3 fields).
C14_SplitsOutsideQuotesOnly ==
    ParsedToRows =>
        \A i \in 1..Len(parsed.lines) :
            Len(parsed.fields[i]) = CommasOutsideQuotes(parsed.lines[i], 1, FALSE) + 1

\* the field of a split line as a number: Number of the text, or of undefined
FieldNumber(fields, j) ==
    IF j <= Len(fields) THEN StringToNumber(fields[j]) ELSE NaN

\* C15: header synonyms are mapped to time, temperature and microbe, compared
\* case-insensitively after trimming: a file with header T, Temp, CFU is
\* accepted and every row of a full data line gets the numeric values of its
\* three columns.
C15_SynonymHeaderIsAccepted ==
    (Parsed /\ Len(NonBlankLines(text)) >= 2
            /\ Head(NonBlankLines(text)) = SynonymHeaderLine) =>
        /\ parsed.status = "resolved"
        /\ \A i \in 1..Len(parsed.rows) :
             Len(parsed.fields[i]) >= 3 =>
                /\ parsed.rows[i].time = FieldNumber(parsed.fields[i], 1)
                /\ parsed.rows[i].temperature = FieldNumber(parsed.fields[i], 2)
                /\ parsed.rows[i].microbe = FieldNumber(parsed.fields[i], 3)

\* C16: blank lines are ignored wherever they occur: the first non-blank line
\* is the header and the result holds exactly one row per non-blank line after
\* it, in file order.
C16_BlankLinesAreIgnored ==
    (ParsedToRows /\ NonBlankLines(text) # <<>>) =>
        /\ Len(parsed.rows) = Len(NonBlankLines(text)) - 1
        /\ \A i \in 1..Len(parsed.rows) :
             /\ i <= Len(parsed.lines)
             /\ Trim(parsed.lines[i]) = Trim(NonBlankLines(text)[i + 1])

(***************************************************************************)
(* getDataSummary, in the two variants the repository holds                *)
(* (src/src/utils/dataAnalysis.ts and src/unnamed/part_007).  A row has    *)
(* the columns time, temperature and microbe; a column whose value is      *)
(* undefined is a key the row object does not have.                        *)
(***************************************************************************)
Columns == <<"time", "temperature", "microbe">>

\* row[col]
ColumnValue(row, col) ==
    CASE col = "time" -> row.time
      [] col = "temperature" -> row.temperature
      [] OTHER -> row.microbe

\* Object.keys(row)
KeysOfRow(row) == SelectSeq(Columns, LAMBDA col : ColumnValue(row, col) # Undefined)

ColumnValues(rows, col) == [i \in 1..Len(rows) |-> ColumnValue(rows[i], col)]

\* typeof v === 'number' && !isNaN(v)
IsNumberNotNaN(v) == TypeofNumber(v) /\ v.k # "nan"

\* typeof val === 'number' && Number.isFinite(val)
IsFiniteNumber(v) == TypeofNumber(v) /\ NumberIsFinite(v)

\* the variance of arr around mean, divided by arr.length
Variance(arr, mean) ==
    Div(SumNum([i \in 1..Len(arr) |-> Square(Sub(arr[i], mean))]), Int2Num(Len(arr)))

\* { mean, std, min, max } of a non-empty array of numbers
ColumnStatsOf(arr) ==
    [mean |-> Div(SumNum(arr), Int2Num(Len(arr))),
     std |-> Sqrt(Variance(arr, Div(SumNum(arr), Int2Num(Len(arr))))),
     min |-> MinNum(arr),
     max |-> MaxNum(arr)]

\* the second loop of getDataSummary: an entry per collected column
RECURSIVE StatsLoop(_, _, _)
StatsLoop(numericCols, i, columnStats) ==
    IF i > Len(numericCols) THEN columnStats
    ELSE StatsLoop(numericCols, i + 1,
             IF Len(numericCols[i].value) = 0 THEN columnStats
             ELSE SetProp(columnStats, numericCols[i].key,
                          ColumnStatsOf(numericCols[i].value)))

NullSummary == [status |-> "null"]

Summary(totalRows, columnStats) ==
    [status |-> "summary", totalRows |-> totalRows, columnStats |-> columnStats]

\* the first loop of dataAnalysis.ts: the columns of the first row, a column
\* is numeric when more than 0.8 of its values are numbers other than NaN
RECURSIVE NumericColumns(_, _, _, _)
NumericColumns(rows, cols, i, numericCols) ==
    IF i > Len(cols) THEN numericCols
    ELSE NumericColumns(rows, cols, i + 1,
             IF 5 * Len(SelectSeq(ColumnValues(rows, cols[i]), IsNumberNotNaN))
                    > 4 * Len(rows)
             THEN SetProp(numericCols, cols[i],
                          SelectSeq(ColumnValues(rows, cols[i]), IsNumberNotNaN))
             ELSE numericCols)

\* getDataSummary of dataAnalysis.ts
getDataSummary(rows) ==
    IF Len(rows) = 0 THEN NullSummary
    ELSE Summary(Len(rows),
                 StatsLoop(NumericColumns(rows, KeysOfRow(rows[1]), 1, <<>>), 1, <<>>))

\* numericCols[col].push(val) of part_007
PushValue(numericCols, col, val) ==
    SetProp(numericCols, col,
            IF \E i \in 1..Len(numericCols) : numericCols[i].key = col
            THEN Append(PropValue(numericCols, col), val)
            ELSE <<val>>)

\* the first loop of part_007: row by row, key by key, the finite numbers
RECURSIVE CollectNumbers(_, _, _, _)
CollectNumbers(rows, r, c, numericCols) ==
    IF r > Len(rows) THEN numericCols
    ELSE IF c > Len(Columns) THEN CollectNumbers(rows, r + 1, 1, numericCols)
    ELSE CollectNumbers(rows, r, c + 1,
             IF IsFiniteNumber(ColumnValue(rows[r], Columns[c]))
             THEN PushValue(numericCols, Columns[c], ColumnValue(rows[r], Columns[c]))
             ELSE numericCols)

\* getDataSummary of part_007
getDataSummaryPT(rows) ==
    IF Len(rows) = 0 THEN NullSummary
    ELSE Summary(Len(rows), StatsLoop(CollectNumbers(rows, 1, 1, <<>>), 1, <<>>))

\* rawSummary of the modeler: getDataSummary(rawData) of dataAnalysis.ts
Summarize ==
    /\ op = "input"
    /\ op' = "summary"
    /\ summary' = getDataSummary(data)
    /\ UNCHANGED <<data, model, groups, perGroup, result, csvVars, uiVars, apiVars, chatVars, uploadVars>>

\* getDataSummary(data) of part_007
SummarizePT ==
    /\ op = "input"
    /\ op' = "summaryPT"
    /\ summary' = getDataSummaryPT(data)
    /\ UNCHANGED <<data, model, groups, perGroup, result, csvVars, uiVars, apiVars, chatVars, uploadVars>>

NextSummary == LoadRow \/ Summarize \/ SummarizePT

SpecSummary == Init /\ [][NextSummary]_vars

(***************************************************************************)
(* Claims about getDataSummary.                                            *)
(***************************************************************************)
Summarized == op \in {"summary", "summaryPT"} /\ Len(data) > 0

\* the numeric values of a column: the finite numbers in it, in row order
NumericValues(col) == SelectSeq(ColumnValues(data, col), IsFiniteNumber)

StatsFor(col) == PropValue(summary.columnStats, col)

\* C17: getDataSummary on a non-empty row set returns totalRows = the number
\* of rows and a columnStats entry for every column with at least one numeric
\* value, holding mean, population std, min and max over exactly the column's
\* numeric values; a column without numeric value has no entry.
C17_StatsForEveryNumericColumn ==
    Summarized =>
        /\ summary.status = "summary"
        /\ summary.totalRows = Len(data)
        /\ \A c \in 1..Len(Columns) :
             IF NumericValues(Columns[c]) # <<>>
             THEN StatsFor(Columns[c]) = ColumnStatsOf(NumericValues(Columns[c]))
             ELSE StatsFor(Columns[c]) = Undefined

(***************************************************************************)
(* The MicrobialModeler component.  A handler runs to its end, or to its   *)
(* await, in one step; React commits the state it set before the next      *)
(* event is handled.  fileName is not modelled.                            *)
(***************************************************************************)
Null == [status |-> "null"]

Message(t) == [status |-> "message", text |-> t]

\* the row sets an upload delivers: two points of a line at one temperature;
\* four rows at two temperatures, out of time order; one row whose
\* temperature cell is no number; no row
DataSets ==
    { << Row(1, Int2Num(0), Int2Num(10), Int2Num(3)),
         Row(2, Int2Num(1), Int2Num(10), Int2Num(5)) >>,
      << Row(1, Int2Num(2), Int2Num(10), Int2Num(3)),
         Row(2, Int2Num(0), Int2Num(10), Int2Num(3)),
         Row(3, Int2Num(1), Int2Num(-5), Int2Num(5)),
         Row(4, Int2Num(0), Int2Num(-5), Int2Num(3)) >>,
      << Row(1, Int2Num(0), NaN, Int2Num(3)) >>,
      << >> }

\* the kinds the selector offers
SelectableKinds == {"linear", "weibull"}

\* the seeds a run of the kind draws its random numbers from
SeedsOf(m) == IF m = "linear" THEN {1} ELSE RandomSeeds

countValidRows ==
    Len(SelectSeq(rawData, LAMBDA r :
            TypeofNumber(r.time) /\ TypeofNumber(r.temperature) /\ TypeofNumber(r.microbe)))

\* canFit without its guard flag
canFit_IgnoresIsFitting == Len(rawData) > 0 /\ countValidRows > 0

canFit == Len(rawData) > 0 /\ countValidRows > 0 /\ ~isFitting

\* [...].sort((a, b) => Number(a.time) - Number(b.time)): a stable sort
RECURSIVE InsertByTime(_, _)
InsertByTime(sorted, r) ==
    IF sorted = <<>> THEN <<r>>
    ELSE IF Lt(ToNumber(r.time), ToNumber(sorted[Len(sorted)].time))
         THEN Append(InsertByTime(SubSeq(sorted, 1, Len(sorted) - 1), r),
                     sorted[Len(sorted)])
    ELSE Append(sorted, r)

RECURSIVE SortByTime(_, _)
SortByTime(rows, k) ==
    IF k = 0 THEN <<>> ELSE InsertByTime(SortByTime(rows, k - 1), rows[k])

\* the value handleModelFit stores: the result with fittedData sorted by time
SortedResult(settled) ==
    [settled EXCEPT !.fittedData = SortByTime(settled.fittedData, Len(settled.fittedData))]

DefaultErrorText == "An error occurred during model fitting."

ErrorText_None(settled) == Null

\* err?.message || "An error occurred during model fitting."
ErrorText(settled) ==
    Message(IF settled.message # "" THEN settled.message ELSE DefaultErrorText)

\* whether the call fitMicrobialModel(rawData, selectedModel) throws before
\* its delay
RejectsAtOnce == Len(groupDataByTemperature(rawData)) = 0

\* handleDataLoad without its setFitResult(null)
handleDataLoad_KeepsFitResult ==
    /\ \E d \in DataSets : rawData' = d
    /\ errorMessage' = Null
    /\ op' = "dataLoad"
    /\ UNCHANGED <<selectedModel, isFitting, fitResult, fitCall, inFlight, outsideUI>>

\* onDataLoaded: an upload has delivered its rows
handleDataLoad ==
    /\ \E d \in DataSets : rawData' = d
    /\ fitResult' = Null
    /\ errorMessage' = Null
    /\ op' = "dataLoad"
    /\ UNCHANGED <<selectedModel, isFitting, fitCall, inFlight, outsideUI>>

handleReset ==
    /\ rawData' = <<>>
    /\ selectedModel' = "linear"
    /\ fitResult' = Null
    /\ errorMessage' = Null
    /\ op' = "reset"
    /\ UNCHANGED <<isFitting, fitCall, inFlight, outsideUI>>

\* onChange of the model selector
SelectModel ==
    /\ \E m \in SelectableKinds : selectedModel' = m
    /\ op' = "select"
    /\ UNCHANGED <<rawData, isFitting, fitResult, errorMessage, fitCall, inFlight, outsideUI>>

\* handleModelFit when canFit is false: the message is set and nothing else
handleModelFit_Refused ==
    /\ ~canFit
    /\ errorMessage' =
          Message("No valid data rows to fit. Ensure time/microbe/temperature are numeric.")
    /\ op' = "fitRefused"
    /\ UNCHANGED <<rawData, selectedModel, isFitting, fitResult, fitCall, inFlight, outsideUI>>

\* handleModelFit up to its await, when the call reaches its delay
handleModelFit ==
    /\ canFit
    /\ ~RejectsAtOnce
    /\ isFitting' = TRUE
    /\ fitResult' = Null
    /\ errorMessage' = Null
    /\ fitCall' = [status |-> "running", rows |-> rawData, model |-> selectedModel, seed |-> 0]
    /\ inFlight' = inFlight + 1
    /\ op' = "fitting"
    /\ UNCHANGED <<rawData, selectedModel, outsideUI>>

\* handleModelFit when fitMicrobialModel throws before its delay: the catch
\* and the finally block run before any other event is handled
handleModelFit_Rejected ==
    /\ canFit
    /\ RejectsAtOnce
    /\ \E run \in {fitMicrobialModel(rawData, selectedModel, 1)} :
            errorMessage' = ErrorText(run.settled)
    /\ fitResult' = Null
    /\ isFitting' = FALSE
    /\ fitCall' = [status |-> "rejected", rows |-> rawData, model |-> selectedModel, seed |-> 0]
    /\ op' = "fitFailed"
    /\ UNCHANGED <<rawData, selectedModel, inFlight, outsideUI>>

\* the delay of the running call elapses: the rest of fitMicrobialModel and
\* of handleModelFit
FitCompletes ==
    /\ fitCall.status = "running"
    /\ \E seed \in SeedsOf(fitCall.model) :
         \E run \in {fitMicrobialModel(fitCall.rows, fitCall.model, seed)} :
            /\ fitResult' = SortedResult(run.settled)
            /\ fitCall' = [fitCall EXCEPT !.status = "resolved", !.seed = seed]
    /\ isFitting' = FALSE
    /\ inFlight' = inFlight - 1
    /\ op' = "fitted"
    /\ UNCHANGED <<rawData, selectedModel, errorMessage, outsideUI>>

NextUI ==
    \/ handleDataLoad
    \/ handleReset
    \/ SelectModel
    \/ handleModelFit_Refused
    \/ handleModelFit
    \/ handleModelFit_Rejected
    \/ FitCompletes

SpecUI == Init /\ [][NextUI]_vars

\* the step that ends the running call: of the steps of NextUI only
\* FitCompletes is one, and it is enabled exactly when a call is running
FitEnds == fitCall.status = "running" /\ isFitting' = FALSE /\ op' = "fitted"

\* the timer of the running call (setTimeout of 800 ms) fires: the step that
\* ends the call is not put off for ever
SpecUILive == SpecUI /\ WF_isFitting(FitEnds)

(***************************************************************************)
(* Claims about MicrobialModeler.                                          *)
(***************************************************************************)
\* the value the call recorded in fitCall resolves with, as handleModelFit
\* stores it
ResultOfCall ==
    SortedResult(fitMicrobialModel(fitCall.rows, fitCall.model, fitCall.seed).settled)

\* C18: no earlier fit result is retained across a data change or a new fit:
\* after handleDataLoad or handleReset fitResult and errorMessage are null;
\* when a fit request is accepted fitResult is null before the fit runs; the
\* value stored when the fit completes is the new fit's result alone.
C18_FitResultIsNeverRetained ==
    /\ op \in {"dataLoad", "reset"} => (fitResult = Null /\ errorMessage = Null)
    /\ op = "fitting" => fitResult = Null
    /\ op = "fitted" => fitResult = ResultOfCall

\* a fit has completed and stored its result, then an upload has delivered
\* other rows: the result is gone
C18_Witness ==
    /\ op = "dataLoad"
    /\ fitCall.status = "resolved"
    /\ Len(fitCall.rows) = 4
    /\ Len(rawData) = 2
    /\ fitResult = Null
    /\ errorMessage = Null

\* C19: if fitMicrobialModel rejects, handleModelFit ends with fitResult null,
\* a user-facing errorMessage (the error's message or the default text) and
\* isFitting false, and no fit is started again by itself; on every path
\* isFitting eventually returns to false.
C19_RejectedFitIsReported ==
    /\ [](op = "fitFailed" =>
            /\ fitResult = Null
            /\ errorMessage \in {Message("No valid data groups for fitting."),
                                 Message(DefaultErrorText)}
            /\ ~isFitting
            /\ fitCall.status = "rejected")
    /\ (isFitting ~> ~isFitting)

\* a fit of a row without usable temperature has been rejected
C19_Witness ==
    /\ op = "fitFailed"
    /\ rawData = << Row(1, Int2Num(0), NaN, Int2Num(3)) >>
    /\ errorMessage = Message("No valid data groups for fitting.")
    /\ ~isFitting

(***************************************************************************)
(* The message relay, POST /api/messages, in the two server files          *)
(* (src/api/serverless.cjs and src/server/serverless.js).  A history array *)
(* is an object: arrays[h] holds the entries of array h, userSessions maps *)
(* a session id to the array stored for it (0: no property), and a running *)
(* call holds the array its local variable history refers to.  The request *)
(* bodies are well-formed JSON; the dataset and the fit result a body may  *)
(* carry only change the text of the user entry and are left out.          *)
(***************************************************************************)
MaxRequests == 3

Servers == {"api/serverless.cjs", "server/serverless.js"}

SessionIds == {"s1", "s2"}

Missing == "missing"

\* what a fetch of the backend can do: a reply with a candidate text, a reply
\* without candidates, an error reply ({error: ...}), a network failure
Outcomes == {"text", "noCandidates", "errorReply", "networkError"}

Entry(role, req) == [role |-> role, req |-> req]

Response(status, body) == [status |-> status, body |-> body]

\* a fresh array for every call, whatever is stored for the session
HistoryOf_AlwaysFresh(sessionId) == Len(arrays) + 1

\* the array the local variable history refers to:
\* userSessions[sessionId] || []
HistoryOf(sessionId) ==
    IF userSessions[sessionId] # 0 THEN userSessions[sessionId] ELSE Len(arrays) + 1

\* history.push(entry) on array h, a new array when h is not yet in arrays
Push(h, entry) ==
    IF h <= Len(arrays) THEN [arrays EXCEPT ![h] = Append(@, entry)]
    ELSE Append(arrays, <<entry>>)

\* the handler up to its first await: the 400 answer, or callGeminiAPI up to
\* its fetch
Post ==
    /\ Len(requests) < MaxRequests
    /\ \E v \in (IF server = "none" THEN Servers ELSE {server}) : server' = v
    /\ \E sessionId \in SessionIds \cup {Missing}, txt \in {"question", Missing} :
         IF txt = Missing \/ sessionId = Missing
         THEN /\ requests' = Append(requests,
                    [sessionId |-> sessionId, text |-> txt, state |-> "done",
                     history |-> 0, payload |-> <<>>, backend |-> "none",
                     responses |-> <<Response(400, "error")>>])
              /\ UNCHANGED <<userSessions, arrays>>
         ELSE /\ arrays' = Push(HistoryOf(sessionId), Entry("user", Len(requests) + 1))
              /\ requests' = Append(requests,
                    [sessionId |-> sessionId, text |-> txt, state |-> "waiting",
                     history |-> HistoryOf(sessionId),
                     payload |-> arrays'[HistoryOf(sessionId)],
                     backend |-> "called", responses |-> <<>>])
              /\ UNCHANGED userSessions
    /\ UNCHANGED outsideAPI

\* whether the rest of callGeminiAPI throws on the outcome: serverless.cjs
\* throws on an error reply, serverless.js has no such test
Throws(outcome) ==
    \/ outcome = "networkError"
    \/ outcome = "errorReply" /\ server = "api/serverless.cjs"

\* the fetch of request r settles: the rest of callGeminiAPI and of the handler
BackendSettles ==
    \E r \in 1..Len(requests) : \E outcome \in Outcomes :
        /\ requests[r].state = "waiting"
        /\ IF Throws(outcome)
           THEN /\ requests' = [requests EXCEPT ![r].state = "done",
                                                ![r].backend = outcome,
                                                ![r].responses = Append(@, Response(500, "error"))]
                /\ UNCHANGED <<userSessions, arrays>>
           ELSE /\ arrays' = Push(requests[r].history, Entry("model", r))
                /\ userSessions' =
                      [userSessions EXCEPT ![requests[r].sessionId] = requests[r].history]
                /\ requests' = [requests EXCEPT ![r].state = "done",
                                                ![r].backend = outcome,
                                                ![r].responses = Append(@, Response(200, "text"))]
        /\ UNCHANGED <<server, outsideAPI>>

NextAPI == Post \/ BackendSettles

SpecAPI == Init /\ [][NextAPI]_vars

(***************************************************************************)
(* Claims about the relay.                                                 *)
(***************************************************************************)
\* no array holds an entry of request r
LeftNoEntry(r) ==
    \A h \in 1..Len(arrays) : \A i \in 1..Len(arrays[h]) : arrays[h][i].req # r

\* C20: POST /api/messages answers every request with exactly one response:
\* 400 {error}, no backend call and no history change when text or sessionId
\* is missing; 200 {text} when the backend call succeeds; 500 {error} when
\* the backend call fails (network error or error reply).
C20_OneResponsePerRequest ==
    \A r \in 1..Len(requests) :
        /\ Len(requests[r].responses) = (IF requests[r].state = "done" THEN 1 ELSE 0)
        /\ (requests[r].text = Missing \/ requests[r].sessionId = Missing) =>
              /\ requests[r].responses = <<Response(400, "error")>>
              /\ requests[r].backend = "none"
              /\ LeftNoEntry(r)
        /\ requests[r].backend \in {"text", "noCandidates"} =>
              requests[r].responses = <<Response(200, "text")>>
        /\ requests[r].backend \in {"errorReply", "networkError"} =>
              requests[r].responses = <<Response(500, "error")>>

\* the calls made one after another: a request arrives only when no call of
\* the relay is waiting for the backend
PostSequential == (\A r \in 1..Len(requests) : requests[r].state # "waiting") /\ Post

NextAPISequential == PostSequential \/ BackendSettles

SpecAPISequential == Init /\ [][NextAPISequential]_vars

\* the requests of a session that reached callGeminiAPI, in call order
CallsOf(s) ==
    SelectSeq([r \in 1..Len(requests) |-> r],
              LAMBDA r : requests[r].sessionId = s /\ requests[r].text # Missing)

\* the call has ended with the answer 200 {text}
Succeeded(r) ==
    requests[r].state = "done" /\ requests[r].responses = <<Response(200, "text")>>

\* the call has ended with the answer 500 {error}
Failed(r) ==
    requests[r].state = "done" /\ requests[r].responses = <<Response(500, "error")>>

\* the calls of a session from its first successful one on: until then the
\* session has no stored history
RECURSIVE FromFirstSuccess(_)
FromFirstSuccess(calls) ==
    IF calls = <<>> \/ Succeeded(Head(calls)) THEN calls
    ELSE FromFirstSuccess(Tail(calls))

\* user, model, user, model, ... of the calls, in call order
Exchanges(calls) ==
    [i \in 1..(2 * Len(calls)) |->
        Entry(IF i % 2 = 1 THEN "user" ELSE "model", calls[(i + 1) \div 2])]

\* the history stored for a session; empty when there is none
StoredHistory(s) == IF userSessions[s] = 0 THEN <<>> ELSE arrays[userSessions[s]]

\* C21: one history per sessionId: after k successful calls, made one after
\* another, of a session that had no history, the stored history has exactly
\* 2k entries alternating user, model in call order; the payload of each call
\* is the whole earlier history followed by the new user entry; no call adds
\* to or reads the history of another session.
C21_OneHistoryPerSession ==
    \A s \in SessionIds :
        (\A i \in 1..Len(FromFirstSuccess(CallsOf(s))) :
              Succeeded(FromFirstSuccess(CallsOf(s))[i])) =>
            /\ StoredHistory(s) = Exchanges(FromFirstSuccess(CallsOf(s)))
            /\ \A i \in 1..Len(FromFirstSuccess(CallsOf(s))) :
                 requests[FromFirstSuccess(CallsOf(s))[i]].payload =
                    SubSeq(Exchanges(FromFirstSuccess(CallsOf(s))), 1, 2 * i - 1)

\* two successful calls of s1 with a successful call of s2 between them
C21_Witness ==
    /\ Len(requests) = 3
    /\ requests[1].sessionId = "s1" /\ requests[2].sessionId = "s2"
    /\ requests[3].sessionId = "s1"
    /\ \A r \in 1..3 : Succeeded(r)
    /\ Len(StoredHistory("s1")) = 4
    /\ Len(StoredHistory("s2")) = 2

\* C27: if the backend call of callGeminiAPI fails, the stored history of the
\* session is what it was before the request: no entry of the failed request
\* is left in it.
C27_FailedCallLeavesHistoryUnchanged ==
    \A r \in 1..Len(requests) :
        (Failed(r) /\ requests[r].backend \in {"errorReply", "networkError"}) =>
            \A i \in 1..Len(StoredHistory(requests[r].sessionId)) :
                StoredHistory(requests[r].sessionId)[i].req # r

\* C28: once two overlapping requests of one session have both completed
\* successfully, the stored history holds both exchanges, each user entry
\* immediately followed by its own model reply.
C28_OverlappingExchangesAreKept ==
    \A s \in SessionIds :
        (\A i \in 1..Len(CallsOf(s)) : Succeeded(CallsOf(s)[i])) =>
            \A i \in 1..Len(CallsOf(s)) :
                \E j \in 1..(Len(StoredHistory(s)) - 1) :
                    /\ StoredHistory(s)[j] = Entry("user", CallsOf(s)[i])
                    /\ StoredHistory(s)[j + 1] = Entry("model", CallsOf(s)[i])

\* C24: at most one fit is in flight at any time: while isFitting is true the
\* trigger is disabled (canFit is false) and handleModelFit starts no other
\* call of fitMicrobialModel, whatever the order of clicks and of the fit's
\* delay.
C24_AtMostOneFitInFlight ==
    /\ inFlight \in {0, 1}
    /\ isFitting <=> inFlight = 1
    /\ isFitting => ~canFit

\* handleModelFit was called while a fit was running and started nothing
C24_Witness ==
    /\ op = "fitRefused"
    /\ isFitting
    /\ inFlight = 1
    /\ fitCall.status = "running"

\* C25: whenever fitResult is non-null it is the result of fitting the rows
\* held as rawData: a fit that completes after the rows were replaced or
\* cleared does not install its result.
C25_FitResultBelongsToRawData ==
    fitResult # Null =>
        \E m \in SelectableKinds : \E seed \in SeedsOf(m) :
            fitResult = SortedResult(fitMicrobialModel(rawData, m, seed).settled)

\* obj[name]: undefined when the object has no such field
FieldOf(obj, name) == IF name \in DOMAIN obj THEN obj[name] ELSE Undefined

\* C30: the fit result handleModelFit stores after a successful fit has a
\* numeric rSquared field equal to the fit's aggregate R2, the field the
\* modeler panel and the chart read.
C30_StoredResultHasRSquared ==
    (op = "fitted" /\ fitResult # Null) =>
        /\ TypeofNumber(FieldOf(fitResult, "rSquared"))
        /\ FieldOf(fitResult, "rSquared") = FieldOf(fitResult, "metrics").r2

(***************************************************************************)
(* The chat panel: the AIChat component the modeler renders with its rows  *)
(* and its fit result as props.  Message contents and the text of the      *)
(* input field are strings of the CSV part's tokens, so that trim() is     *)
(* the Trim of that part.  A click and a key press are discrete events:    *)
(* the state a handler set is committed before the next one is handled,    *)
(* and the mount effect has run before the first one.                      *)
(***************************************************************************)

\* the number of messages the user sends in one run of the model
MaxExchanges == 2

\* the variables the chat panel leaves alone
outsideChat == <<fitVars, csvVars, summary, uiVars, apiVars, uploadVars>>

ChatMessage(type, content) == [type |-> type, content |-> content]

\* the message the mount effect shows
Greeting == ChatMessage("ai", <<"Hello! I am ready to chat about your data.">>)

NoResponseText == <<"No response from AI.">>

UnavailableText == <<"AI service is unavailable. Check server logs.">>

ReplyText == <<"reply">>

\* what the user types into the input field
InputTexts == {<<>>, <<Space>>, <<Space, "Any outliers?">>}

\* the suggestion badges, which stay clickable while a request runs
SuggestionTexts == {<<"Any outliers?">>}

\* how the fetch of handleSend ends: a 2xx reply with a text, a 2xx reply
\* whose text is empty or missing, a reply that is not 2xx, a rejected fetch,
\* a 2xx reply whose body is not JSON
FetchOutcomes == {"text", "emptyText", "notOk", "networkError", "badBody"}

\* the outcomes that take the catch block: fetch or response.json() rejects,
\* or !response.ok throws
FetchThrows(outcome) == outcome \in {"notOk", "networkError", "badBody"}

AfterFetch_DropsFailure(list, outcome) ==
    IF FetchThrows(outcome)
    THEN list
    ELSE Append(list, ChatMessage("ai", ReplyText))

\* the message list after the try block or the catch block appended to it
AfterFetch(list, outcome) ==
    IF FetchThrows(outcome)
    THEN Append(list, ChatMessage("ai", UnavailableText))
    ELSE Append(list, ChatMessage("ai",
             IF outcome = "text" THEN ReplyText ELSE NoResponseText))

handleSend_ReturnsOnBlankOnly == Trim(input) = <<>>

\* if (!input.trim() || loading) return
handleSend_Returns == Trim(input) = <<>> \/ loading

Sent(list) == Cardinality({i \in 1..Len(list) : list[i].type = "user"})

\* the mount effect: the empty list becomes the greeting
ShowGreeting ==
    /\ chatOp = "none"
    /\ Len(messages) = 0
    /\ messages' = <<Greeting>>
    /\ chatOp' = "greeting"
    /\ UNCHANGED <<input, loading, chatInFlight, outsideChat>>

\* setInput: typing into the field, which is disabled while loading, or a
\* click on a suggestion badge
SetInput ==
    /\ chatOp # "none"
    /\ \E v \in (IF loading THEN SuggestionTexts ELSE InputTexts \cup SuggestionTexts) :
         /\ v # input
         /\ input' = v
    /\ UNCHANGED <<messages, loading, chatInFlight, chatOp, outsideChat>>

\* handleSend returns at its first line
handleSend_Refused ==
    /\ chatOp # "none"
    /\ handleSend_Returns
    /\ chatOp' = "refused"
    /\ UNCHANGED <<messages, input, loading, chatInFlight, outsideChat>>

\* handleSend up to its await: the user's message is appended, the field is
\* cleared, loading is set and the request is issued
handleSend ==
    /\ chatOp # "none"
    /\ ~handleSend_Returns
    /\ Sent(messages) < MaxExchanges
    /\ messages' = Append(messages, ChatMessage("user", Trim(input)))
    /\ input' = <<>>
    /\ loading' = TRUE
    /\ chatInFlight' = chatInFlight + 1
    /\ chatOp' = "sent"
    /\ UNCHANGED outsideChat

\* handleSend after its await: the try block or the catch block appends one
\* message, and the finally block clears loading
FetchSettles ==
    /\ chatInFlight > 0
    /\ \E outcome \in FetchOutcomes :
         /\ messages' = AfterFetch(messages, outcome)
         /\ chatOp' = IF FetchThrows(outcome) THEN "failed" ELSE "replied"
    /\ loading' = FALSE
    /\ chatInFlight' = chatInFlight - 1
    /\ UNCHANGED <<input, outsideChat>>

\* the modeler with its chat panel
NextChat ==
    \/ handleDataLoad
    \/ handleReset
    \/ SelectModel
    \/ handleModelFit_Refused
    \/ handleModelFit
    \/ handleModelFit_Rejected
    \/ FitCompletes
    \/ ShowGreeting
    \/ SetInput
    \/ handleSend_Refused
    \/ handleSend
    \/ FetchSettles

SpecChat == Init /\ [][NextChat]_vars

\* the chat panel alone
NextAIChat ==
    \/ ShowGreeting
    \/ SetInput
    \/ handleSend_Refused
    \/ handleSend
    \/ FetchSettles

SpecAIChat == Init /\ [][NextAIChat]_vars

\* the promise of fetch settles: the browser ends every request with a
\* response or an error
SpecAIChatLive == SpecAIChat /\ WF_vars(FetchSettles)

\* C22: when the chat request fails or is answered with a status that is not
\* 2xx, handleSend appends exactly one fallback assistant message after the
\* user's message and sets loading to false, and rawData, fitResult,
\* isFitting and errorMessage of MicrobialModeler stay as they are.
C22_FailedChatAppendsOneFallback ==
    [][(chatInFlight' = chatInFlight - 1 /\ chatOp' = "failed") =>
          /\ messages[Len(messages)].type = "user"
          /\ messages' = Append(messages, ChatMessage("ai", UnavailableText))
          /\ loading' = FALSE
          /\ UNCHANGED <<rawData, fitResult, isFitting, errorMessage>>]_vars

C22_Witness ==
    /\ chatOp = "failed"
    /\ ~loading
    /\ Len(messages) = 3
    /\ messages[2].type = "user"
    /\ messages[3] = ChatMessage("ai", UnavailableText)
    /\ rawData # <<>>
    /\ fitResult # Null

Alternates(list) ==
    \A i \in 2..Len(list) : list[i].type = IF i % 2 = 0 THEN "user" ELSE "ai"

\* C29: at most one chat request is in flight: while loading handleSend
\* appends no message and issues no request; after the greeting the messages
\* alternate user, assistant; every user message that was accepted is
\* eventually followed by one assistant message.
C29_OneChatRequestInFlight ==
    /\ [](/\ chatInFlight \in {0, 1}
          /\ loading <=> chatInFlight = 1
          /\ Alternates(messages))
    /\ [][(loading /\ chatOp' = "refused") =>
             (messages' = messages /\ chatInFlight' = chatInFlight)]_vars
    /\ \A n \in 2..(2 * MaxExchanges) :
         (Len(messages) = n /\ messages[n].type = "user")
             ~> (Len(messages) > n /\ messages[n + 1].type = "ai")

C29_Witness ==
    /\ chatOp = "refused"
    /\ loading
    /\ chatInFlight = 1
    /\ Len(messages) = 4
    /\ messages[4].type = "user"

(***************************************************************************)
(* The upload component.  MicrobialModeler renders UploadProgressSimulator *)
(* with onComplete = handleDataLoad and without onReset; DataUpload is the *)
(* other component file with the same simulated upload.  A File object is  *)
(* a record of files: its name, its text as the lines the CSV part reads,  *)
(* how far its upload has come, and whether Reset was clicked since it was *)
(* selected.  A handler called from an asynchronous function or a timer    *)
(* reads the state of the render that created it, so the model keeps the   *)
(* values such a closure captured.                                         *)
(***************************************************************************)

\* the number of File objects created in one run of the model
MaxFiles == 2

Uploaders == {"UploadProgressSimulator.tsx", "DataUpload.tsx"}

Simulator == "UploadProgressSimulator.tsx"

\* the variables of the modeler that onComplete sets
modelerVars == <<op, uiVars>>

\* the variables the upload component leaves alone, onComplete set aside
outsideUpload ==
    <<data, model, groups, perGroup, result, csvVars, summary, apiVars, chatVars>>

SampleName == "microbe_data.csv"

\* the sample file the component fetches
SampleText == <<HeaderLine, PlainLine>>

\* the files the user selects: one that parses, one whose header
\* parseCSVFile rejects
UserTexts == { <<HeaderLine, PlainLine, PlainLine>>, <<SynonymHeaderLine, PlainLine>> }

File(name, t) == [name |-> name, text |-> t, stage |-> "selected", resetSince |-> FALSE]

SetStage(fs, f, stage) == [fs EXCEPT ![f].stage = stage]

\* Reset was clicked: every file whose upload has not ended was selected
\* before this reset
MarkReset(fs) ==
    [i \in 1..Len(fs) |->
        IF fs[i].stage \in {"delivered", "failed"} THEN fs[i]
        ELSE [fs[i] EXCEPT !.resetSince = TRUE]]

Remove(s, i) == SubSeq(s, 1, i - 1) \o SubSeq(s, i + 1, Len(s))

\* the component is mounted
MountUpload ==
    /\ uploader = "none"
    /\ uploader' \in Uploaders
    /\ uploadOp' = "mount"
    /\ UNCHANGED <<files, selectedFile, progress, isUploading, statusMessage,
                   canLoadSample, interval, sampleFetches, modelerVars, outsideUpload>>

\* handleFileChange / onFileChange with a file: the file input, which is
\* disabled while uploading, or a drop, which is not
handleFileChange ==
    /\ uploader # "none"
    /\ Len(files) + Len(sampleFetches) < MaxFiles
    /\ \E t \in UserTexts : files' = Append(files, File("data.csv", t))
    /\ selectedFile' = Len(files) + 1
    /\ progress' = 0
    /\ statusMessage' = "Selected file: data.csv"
    /\ canLoadSample' = IF uploader = Simulator THEN FALSE ELSE canLoadSample
    /\ uploadOp' = "select"
    /\ UNCHANGED <<uploader, isUploading, interval, sampleFetches, modelerVars, outsideUpload>>

\* handleFileChange / onFileChange without a file: the file dialog was
\* cancelled
handleFileChange_NoFile ==
    /\ uploader # "none"
    /\ ~isUploading
    /\ selectedFile # 0
    /\ selectedFile' = 0
    /\ progress' = 0
    /\ statusMessage' = "null"
    /\ uploadOp' = "cancel"
    /\ UNCHANGED <<uploader, files, isUploading, canLoadSample, interval, sampleFetches,
                   modelerVars, outsideUpload>>

PreparingText(u) == IF u = Simulator THEN "Preparing upload..." ELSE "Uploading..."

\* startUpload from the Start Upload button, which is disabled while
\* uploading, at progress 100 and without a file
startUpload ==
    /\ uploader # "none"
    /\ selectedFile # 0
    /\ ~isUploading
    /\ progress # 100
    /\ isUploading' = TRUE
    /\ progress' = 0
    /\ statusMessage' = PreparingText(uploader)
    /\ interval' = selectedFile
    /\ files' = SetStage(files, selectedFile, "uploading")
    /\ uploadOp' = "start"
    /\ UNCHANGED <<uploader, selectedFile, canLoadSample, sampleFetches, modelerVars, outsideUpload>>

CompleteText(u) ==
    IF u = Simulator THEN "Upload complete - processing file..."
    ELSE "Upload complete. Parsing file..."

\* the callback of setInterval: progress moves on; at 100 the interval is
\* cleared, isUploading is reset and the delayed parse of the file the
\* interval captured is scheduled with setTimeout
Tick ==
    /\ interval # 0
    /\ \E next \in {50, 100} :
         /\ next = 50 => progress < 50
         /\ progress' = next
         /\ IF next = 100
            THEN /\ interval' = 0
                 /\ isUploading' = FALSE
                 /\ statusMessage' = CompleteText(uploader)
                 /\ files' = SetStage(files, interval, "waiting")
            ELSE /\ statusMessage' =
                        IF uploader = Simulator THEN "Making good progress..."
                        ELSE statusMessage
                 /\ UNCHANGED <<interval, isUploading, files>>
    /\ uploadOp' = "tick"
    /\ UNCHANGED <<uploader, selectedFile, canLoadSample, sampleFetches, modelerVars, outsideUpload>>

\* the callback of setTimeout: parseCSVFile starts to read the captured file
TimeoutFires ==
    /\ \E f \in 1..Len(files) :
         /\ files[f].stage = "waiting"
         /\ files' = SetStage(files, f, "parsing")
    /\ uploadOp' = "timeout"
    /\ UNCHANGED <<uploader, selectedFile, progress, isUploading, statusMessage,
                   canLoadSample, interval, sampleFetches, modelerVars, outsideUpload>>

ParsedText(u) ==
    IF u = Simulator THEN "File parsed. Loading data..." ELSE "File loaded successfully."

FailedText(u) ==
    IF u = Simulator THEN "Failed to parse CSV file. Check format."
    ELSE "Failed to parse CSV file."

\* the promise of parseCSVFile settles: then() hands the rows to onComplete,
\* which is handleDataLoad of the modeler; catch() shows the failure
ParseSettles ==
    /\ \E f \in 1..Len(files) :
         /\ files[f].stage = "parsing"
         /\ \E run \in {parseCSVFile(files[f].text)} :
              IF run.status = "resolved"
              THEN /\ files' = SetStage(files, f, "delivered")
                   /\ statusMessage' = ParsedText(uploader)
                   /\ rawData' = run.rows
                   /\ fitResult' = Null
                   /\ errorMessage' = Null
                   /\ op' = "dataLoad"
                   /\ uploadOp' = "complete"
                   /\ UNCHANGED <<selectedModel, isFitting, fitCall, inFlight>>
              ELSE /\ files' = SetStage(files, f, "failed")
                   /\ statusMessage' = FailedText(uploader)
                   /\ uploadOp' = "parseFailed"
                   /\ UNCHANGED modelerVars
    /\ UNCHANGED <<uploader, selectedFile, progress, isUploading, canLoadSample,
                   interval, sampleFetches, outsideUpload>>

\* resetAll / resetUpload from the Reset button, which is disabled while
\* uploading: the interval is cleared and the state is reset; the timer of
\* setTimeout and a running parse are not touched.  onReset is not passed by
\* the modeler, so the last line of resetAll throws after the setters ran.
resetAll ==
    /\ uploader # "none"
    /\ ~isUploading
    /\ interval' = 0
    /\ isUploading' = FALSE
    /\ selectedFile' = 0
    /\ progress' = 0
    /\ statusMessage' = "null"
    /\ canLoadSample' = IF uploader = Simulator THEN TRUE ELSE canLoadSample
    /\ files' = MarkReset(files)
    /\ uploadOp' = "reset"
    /\ UNCHANGED <<uploader, sampleFetches, modelerVars, outsideUpload>>

\* loadSample / startTemplateUpload up to its await: the fetch of the sample
\* file is issued by a function that keeps the state of this render
loadSample ==
    /\ uploader # "none"
    /\ uploader = Simulator => (canLoadSample /\ ~isUploading)
    /\ Len(files) + Len(sampleFetches) < MaxFiles
    /\ sampleFetches' = Append(sampleFetches,
                               [selectedFile |-> selectedFile, isUploading |-> isUploading])
    /\ uploadOp' = "loadSample"
    /\ UNCHANGED <<uploader, files, selectedFile, progress, isUploading, statusMessage,
                   canLoadSample, interval, modelerVars, outsideUpload>>

\* startUpload as loadSample calls it after handleFileChange: its test
\* !selectedFile || isUploading reads the state the function captured
ClosureStarts(c) == uploader = Simulator /\ c.selectedFile # 0 /\ ~c.isUploading

\* loadSample / startTemplateUpload after its await, the fetch succeeded: the
\* sample file is selected, and loadSample calls startUpload
SampleFetched ==
    /\ uploader # "none"
    /\ \E i \in 1..Len(sampleFetches) :
         /\ sampleFetches' = Remove(sampleFetches, i)
         /\ IF ClosureStarts(sampleFetches[i])
            THEN /\ files' = SetStage(Append(files, File(SampleName, SampleText)),
                                      sampleFetches[i].selectedFile, "uploading")
                 /\ isUploading' = TRUE
                 /\ interval' = sampleFetches[i].selectedFile
                 /\ statusMessage' = PreparingText(uploader)
            ELSE /\ files' = Append(files, File(SampleName, SampleText))
                 /\ statusMessage' =
                        IF uploader = Simulator THEN "Selected file: microbe_data.csv"
                        ELSE "Sample template selected."
                 /\ UNCHANGED <<isUploading, interval>>
    /\ selectedFile' = Len(files) + 1
    /\ progress' = 0
    /\ canLoadSample' = IF uploader = Simulator THEN FALSE ELSE canLoadSample
    /\ uploadOp' = "sampleFetched"
    /\ UNCHANGED <<uploader, modelerVars, outsideUpload>>

\* loadSample / startTemplateUpload after its await, the fetch failed
SampleFetchFails ==
    /\ uploader # "none"
    /\ \E i \in 1..Len(sampleFetches) : sampleFetches' = Remove(sampleFetches, i)
    /\ statusMessage' =
           IF uploader = Simulator THEN statusMessage
           ELSE "Failed to load template sample."
    /\ uploadOp' = "sampleFailed"
    /\ UNCHANGED <<uploader, files, selectedFile, progress, isUploading, canLoadSample,
                   interval, modelerVars, outsideUpload>>

NextUpload ==
    \/ MountUpload
    \/ handleFileChange
    \/ handleFileChange_NoFile
    \/ startUpload
    \/ Tick
    \/ TimeoutFires
    \/ ParseSettles
    \/ resetAll
    \/ loadSample
    \/ SampleFetched
    \/ SampleFetchFails

SpecUpload == Init /\ [][NextUpload]_vars

\* the steps the user does not take, each written by what it changes: the
\* interval fires, the timer fires or the promise of parseCSVFile settles,
\* the promise of fetch settles
TickEnds == interval # 0 /\ progress' \in {50, 100} /\ progress' > progress

StageEnds ==
    \E f \in 1..Len(files) :
        \/ files[f].stage = "waiting" /\ files' = SetStage(files, f, "parsing")
        \/ /\ files[f].stage = "parsing"
           /\ files' \in {SetStage(files, f, "delivered"), SetStage(files, f, "failed")}

FetchEnds == \E i \in 1..Len(sampleFetches) : sampleFetches' = Remove(sampleFetches, i)

\* timers fire and promises settle
SpecUploadLive ==
    /\ SpecUpload
    /\ WF_progress(TickEnds)
    /\ WF_files(StageEnds)
    /\ WF_sampleFetches(FetchEnds)

\* the steps of the upload component that are clicks of the user
Clicks == {"select", "cancel", "start", "reset", "loadSample"}

\* C23: a click on Load Sample whose fetch succeeds selects the sample file
\* and starts the simulated upload at once, so that without a further click
\* the rows of the sample are eventually delivered through onComplete.
C23_SampleIsDeliveredWithoutClick ==
    \A f \in 1..MaxFiles :
        (/\ uploader = Simulator
         /\ uploadOp = "sampleFetched"
         /\ selectedFile = f)
        ~> (\/ uploadOp \in Clicks
            \/ f <= Len(files) /\ files[f].stage = "delivered")

\* C26: after Reset of the upload component no rows of a file selected before
\* the reset are delivered through onComplete; a reset after progress 100 and
\* before the delayed parse has ended keeps that parse from loading data.
C26_NoDeliveryAfterReset ==
    \A f \in 1..Len(files) : ~(files[f].stage = "delivered" /\ files[f].resetSince)

====
